---- MODULE Spec2Model ----
(***************************************************************************)
(* Model of the multi-platform price scraper.                              *)
(*                                                                         *)
(*   src/app.py      the Flask service: POST /scrape/prices, its helpers   *)
(*                   clean_price, detect_product_category,                 *)
(*                   get_relevant_platforms, scrape_platform,              *)
(*                   scrape_all_platforms                                  *)
(*   src/scraper.py  the location-aware scraper: _async_scrape_all         *)
(*                                                                         *)
(* Text is a sequence of one-character strings.  A Python value that can   *)
(* be a listing price is a record [kind, int, frac]: kind "num" is a       *)
(* number int.frac (frac the decimal digits after the point, without       *)
(* trailing zeros), kind "none" is None, kind "str" a string.              *)
(***************************************************************************)
EXTENDS Integers, Sequences, FiniteSets, TLC

VARIABLES
    entry,              \* which entry point this behaviour runs
    \* ---- src/app.py, one /scrape/prices request
    pc,                 \* "idle" | "scraping" | "done"
    request,            \* the JSON body posted, NoRequest before it arrives
    product_name,       \* the request's product_name after .strip()
    custom_platforms,   \* the request's platforms (<<>> when absent)
    category,           \* detect_product_category(product_name)
    platforms,          \* the platform keys being searched
    idx,                \* position of scrape_all_platforms' loop
    phase,              \* "start" | "fetch": inside scrape_platform
    delay,              \* seconds slept by apply_rate_limiting, 0 outside
    all_results,        \* scrape_all_platforms' all_results, sorted in place at the end
    returned,           \* what each scrape_platform call returned, in order
    outcomes,           \* how each platform's fetch ended, in order
    rate_limited,       \* number of rate-limit sleeps of this request
    fetches,            \* number of HTTP requests of this request
    response,           \* the HTTP response, NoResponse before it is sent
    SCRAPER_API_KEY,    \* whether the environment sets a ScraperAPI key
    PLATFORM_CONFIGS,   \* the module-level table of platform configurations
    calls,              \* per scrape_platform call: the requests it issued and the response it got
    \* ---- src/scraper.py, one _async_scrape_all call
    CRAWL4AI_AVAILABLE, \* whether the crawl4ai import succeeded
    s_pc,               \* "tasks" | "done"
    s_idx,              \* position of the "for platform_name, task" loop
    running,            \* the task whose coroutine is executing, 0 when none is
    all_products,       \* products collected so far
    errors,             \* error messages, one per failed task
    task_results,       \* what each awaited task gave, <<>> when it raised
    s_result,           \* the returned dictionary
    \* ---- pure functions applied to one input
    price_text,         \* clean_price's argument
    price_result,       \* its result, NotRun before the call
    query,              \* detect_product_category's argument
    query_words,        \* the words the query was written with
    category_result,    \* its result, "" before the call
    \* ---- one scraping routine applied to what the sites answer
    routine_query,      \* the query the routine is called with
    upstream,           \* what the routine's sites answer
    routine_result,     \* what the routine returns, NotCalled before that
    \* ---- src/app.py, two requests served by one process
    round,              \* 1 during the first request, 2 from its answer on
    first_response,     \* the answer to the first request, NoResponse before it
    mocked              \* what each platform's site answers, NoMocks when not fixed

appVars == <<pc, request, product_name, custom_platforms, category, platforms, idx, phase,
             delay, all_results, returned, outcomes, rate_limited, fetches, response,
             SCRAPER_API_KEY, PLATFORM_CONFIGS, calls>>
scraperVars == <<CRAWL4AI_AVAILABLE, s_pc, s_idx, running, all_products, errors, task_results,
                 s_result>>
priceVars == <<price_text, price_result>>
categoryVars == <<query, query_words, category_result>>
routineVars == <<routine_query, upstream, routine_result>>
repeatVars == <<round, first_response, mocked>>
vars == <<entry, appVars, scraperVars, priceVars, categoryVars, routineVars, repeatVars>>

(***************************************************************************)
(* Bounds of the model.                                                    *)
(***************************************************************************)
\* longest enumerated argument of clean_price
MaxPriceLen == 8
\* most words in an enumerated query of detect_product_category
MaxWords == 2
\* most product containers on an enumerated upstream page
MaxContainers == 1
\* most pdpData scripts on an enumerated Myntra page
MaxScripts == 1
\* the longest selector list given to extract_with_multiple_selectors
MaxSelectors == 3

(***************************************************************************)
(* Sequences.                                                              *)
(***************************************************************************)
SeqsUpTo(S, n) == UNION {[1..k -> S] : k \in 0..n}

RECURSIVE Concat(_)
Concat(ss) == IF ss = <<>> THEN <<>> ELSE Head(ss) \o Concat(Tail(ss))

Range(s) == {s[i] : i \in 1..Len(s)}

\* s[:n]
Prefix(s, n) == SubSeq(s, 1, IF Len(s) < n THEN Len(s) ELSE n)

(***************************************************************************)
(* Python numbers, None and strings as listing prices.                     *)
(***************************************************************************)
Num(i, f) == [kind |-> "num", int |-> i, frac |-> f]
PyNone == [kind |-> "none", int |-> 0, frac |-> <<>>]
PyStr == [kind |-> "str", int |-> 0, frac |-> <<>>]
NotRun == [kind |-> "notrun", int |-> 0, frac |-> <<>>]
Zero == Num(0, <<>>)

\* a < b on the digits after the decimal point
RECURSIVE FracLess(_, _)
FracLess(a, b) ==
    IF b = <<>> THEN FALSE
    ELSE IF a = <<>> THEN TRUE
    ELSE IF Head(a) # Head(b) THEN Head(a) < Head(b)
    ELSE FracLess(Tail(a), Tail(b))

\* a < b for two numbers
NumLess(a, b) == a.int < b.int \/ (a.int = b.int /\ FracLess(a.frac, b.frac))

(***************************************************************************)
(* clean_price, src/app.py:335-346.                                        *)
(***************************************************************************)
Digits == <<"0", "1", "2", "3", "4", "5", "6", "7", "8", "9">>
IsDigit(c) == c \in Range(Digits)
DigitVal(c) == (CHOOSE i \in 1..10 : Digits[i] = c) - 1

\* str(n) of a natural number, as in f"{i+1}"
RECURSIVE IntToText(_)
IntToText(n) ==
    IF n < 10 THEN <<Digits[n + 1]>>
    ELSE IntToText(n \div 10) \o <<Digits[(n % 10) + 1]>>

\* the sanity ceiling of "if 0 < price < 10000000"
PRICE_CEILING == 10000000

\* re.sub(r'[^\d.]', '', text) keeps the digits and the decimal points
KeptByReSub(c) == IsDigit(c) \/ c = "."
ReSubNonPrice(text) == SelectSeq(text, KeptByReSub)

RECURSIVE IntOfDigits(_, _)
IntOfDigits(ds, acc) ==
    IF ds = <<>> THEN acc ELSE IntOfDigits(Tail(ds), 10 * acc + DigitVal(Head(ds)))

RECURSIVE StripTrailingZeros(_)
StripTrailingZeros(ds) ==
    IF ds # <<>> /\ ds[Len(ds)] = 0 THEN StripTrailingZeros(SubSeq(ds, 1, Len(ds) - 1))
    ELSE ds

DotPositions(s) == {i \in 1..Len(s) : s[i] = "."}

\* float(s) for s made of digits and points: [ok, value]; ok = FALSE is ValueError
ParseFloat(s) ==
    LET dots == DotPositions(s)
        cut == IF dots = {} THEN Len(s) + 1 ELSE CHOOSE i \in dots : TRUE
        ip == SubSeq(s, 1, cut - 1)
        fp == SubSeq(s, cut + 1, Len(s))
    IN  IF Cardinality(dots) > 1 \/ Len(s) - Cardinality(dots) = 0
        THEN [ok |-> FALSE, value |-> Zero]
        ELSE [ok |-> TRUE,
              value |-> Num(IntOfDigits(ip, 0),
                            StripTrailingZeros([i \in 1..Len(fp) |-> DigitVal(fp[i])]))]

\* a variant with the ceiling test written "<=" instead of "<"
clean_price_ceiling_inclusive(text) ==
    IF text = <<>> THEN Zero
    ELSE LET parsed == ParseFloat(ReSubNonPrice(text))
         IN  IF parsed.ok /\ NumLess(Zero, parsed.value)
                /\ ~NumLess(Num(PRICE_CEILING, <<>>), parsed.value)
             THEN parsed.value
             ELSE Zero

clean_price(text) ==
    IF text = <<>> THEN Zero
    ELSE LET parsed == ParseFloat(ReSubNonPrice(text))
         IN  IF parsed.ok /\ NumLess(Zero, parsed.value)
                /\ NumLess(parsed.value, Num(PRICE_CEILING, <<>>))
             THEN parsed.value
             ELSE Zero

(***************************************************************************)
(* Text helpers: str.lower, str.strip, str.split, ' '.join, "k in s".      *)
(***************************************************************************)
UpperCase ==
    <<"A", "B", "C", "D", "E", "F", "G", "H", "I", "J", "K", "L", "M",
      "N", "O", "P", "Q", "R", "S", "T", "U", "V", "W", "X", "Y", "Z">>
LowerCase ==
    <<"a", "b", "c", "d", "e", "f", "g", "h", "i", "j", "k", "l", "m",
      "n", "o", "p", "q", "r", "s", "t", "u", "v", "w", "x", "y", "z">>

LowerChar(c) ==
    IF c \in Range(UpperCase)
    THEN LowerCase[CHOOSE i \in 1..Len(UpperCase) : UpperCase[i] = c]
    ELSE c

\* s.lower()
Lower(s) == [i \in 1..Len(s) |-> LowerChar(s[i])]

RECURSIVE LStrip(_)
LStrip(s) == IF s # <<>> /\ Head(s) = " " THEN LStrip(Tail(s)) ELSE s

RECURSIVE RStrip(_)
RStrip(s) ==
    IF s # <<>> /\ s[Len(s)] = " " THEN RStrip(SubSeq(s, 1, Len(s) - 1)) ELSE s

\* a variant that leaves the blanks in place
StripNothing(s) == s

\* s.strip()
Strip(s) == RStrip(LStrip(s))

\* s.split(): the maximal runs of non-blank characters
RECURSIVE SplitFrom(_, _, _)
SplitFrom(s, cur, acc) ==
    IF s = <<>> THEN (IF cur = <<>> THEN acc ELSE Append(acc, cur))
    ELSE IF Head(s) = " "
         THEN SplitFrom(Tail(s), <<>>, IF cur = <<>> THEN acc ELSE Append(acc, cur))
         ELSE SplitFrom(Tail(s), Append(cur, Head(s)), acc)

Split(s) == SplitFrom(s, <<>>, <<>>)

\* sep.join(ws)
RECURSIVE Join(_, _)
Join(ws, sep) ==
    IF ws = <<>> THEN <<>>
    ELSE IF Len(ws) = 1 THEN ws[1]
    ELSE ws[1] \o sep \o Join(Tail(ws), sep)

\* the query as typed: the words one blank apart, or two blanks apart with a
\* blank before and after
WriteQuery(words, spaced) ==
    IF spaced THEN <<" ">> \o Join(words, <<" ", " ">>) \o <<" ">>
    ELSE Join(words, <<" ">>)

\* k in s
IsSubstring(k, s) ==
    \E i \in 1..(Len(s) - Len(k) + 1) : SubSeq(s, i, i + Len(k) - 1) = k

(***************************************************************************)
(* detect_product_category, src/app.py:479-520.                            *)
(***************************************************************************)
remove_words ==
    <<<<"p", "r", "i", "c", "e">>, <<"p", "r", "i", "c", "e", "s">>, <<"c", "o", "s", "t">>,
      <<"c", "h", "e", "a", "p">>, <<"c", "h", "e", "a", "p", "e", "s", "t">>, <<"f", "i", "n", "d">>,
      <<"s", "e", "a", "r", "c", "h">>, <<"b", "u", "y">>, <<"g", "e", "t">>>>

fashion_keywords ==
    <<<<"s", "h", "o", "e", "s">>, <<"s", "h", "o", "e">>, <<"s", "n", "e", "a", "k", "e", "r", "s">>,
      <<"b", "o", "o", "t", "s">>, <<"s", "a", "n", "d", "a", "l", "s">>, <<"s", "l", "i", "p", "p", "e", "r", "s">>,
      <<"h", "e", "e", "l", "s">>, <<"n", "i", "k", "e">>, <<"a", "d", "i", "d", "a", "s">>,
      <<"p", "u", "m", "a">>, <<"r", "e", "e", "b", "o", "k">>, <<"s", "h", "i", "r", "t">>,
      <<"t", "s", "h", "i", "r", "t">>, <<"j", "e", "a", "n", "s">>, <<"p", "a", "n", "t", "s">>,
      <<"d", "r", "e", "s", "s">>, <<"j", "a", "c", "k", "e", "t">>, <<"k", "u", "r", "t", "a">>,
      <<"s", "a", "r", "e", "e">>>>

electronics_keywords ==
    <<<<"p", "h", "o", "n", "e">>, <<"m", "o", "b", "i", "l", "e">>, <<"i", "p", "h", "o", "n", "e">>,
      <<"s", "a", "m", "s", "u", "n", "g">>, <<"o", "n", "e", "p", "l", "u", "s">>, <<"l", "a", "p", "t", "o", "p">>,
      <<"m", "a", "c", "b", "o", "o", "k">>, <<"t", "a", "b", "l", "e", "t">>, <<"i", "p", "a", "d">>,
      <<"t", "v">>, <<"t", "e", "l", "e", "v", "i", "s", "i", "o", "n">>, <<"h", "e", "a", "d", "p", "h", "o", "n", "e", "s">>,
      <<"e", "a", "r", "p", "h", "o", "n", "e", "s">>, <<"c", "a", "m", "e", "r", "a">>, <<"w", "a", "t", "c", "h">>,
      <<"s", "m", "a", "r", "t", "w", "a", "t", "c", "h">>, <<"p", "l", "a", "y", "s", "t", "a", "t", "i", "o", "n">>, <<"x", "b", "o", "x">>>>

grocery_keywords ==
    <<<<"m", "i", "l", "k">>, <<"b", "r", "e", "a", "d">>, <<"r", "i", "c", "e">>,
      <<"d", "a", "l">>, <<"a", "t", "t", "a">>, <<"o", "i", "l">>,
      <<"g", "h", "e", "e">>, <<"s", "u", "g", "a", "r">>, <<"s", "a", "l", "t">>,
      <<"f", "r", "u", "i", "t", "s">>, <<"v", "e", "g", "e", "t", "a", "b", "l", "e", "s">>, <<"a", "p", "p", "l", "e">>,
      <<"b", "a", "n", "a", "n", "a">>, <<"o", "n", "i", "o", "n">>, <<"p", "o", "t", "a", "t", "o">>,
      <<"e", "g", "g", "s">>, <<"b", "i", "s", "c", "u", "i", "t", "s">>, <<"c", "h", "i", "p", "s">>,
      <<"c", "h", "o", "c", "o", "l", "a", "t", "e">>, <<"g", "r", "o", "c", "e", "r", "y">>, <<"f", "o", "o", "d">>>>

\* the query lower-cased, stripped, split, with the remove_words dropped
CleanedWords(q) ==
    LET words == Split(Lower(Strip(q)))
        Kept(wd) == wd \notin Range(remove_words)
    IN  SelectSeq(words, Kept)

AnyKeywordIn(keywords, cleaned_query) ==
    \E i \in 1..Len(keywords) : IsSubstring(keywords[i], cleaned_query)

\* a variant that consults the electronics list before the fashion list
detect_product_category_electronics_first(q) ==
    LET cleaned_query == Join(CleanedWords(q), <<" ">>)
    IN  IF AnyKeywordIn(electronics_keywords, cleaned_query) THEN "electronics"
        ELSE IF AnyKeywordIn(fashion_keywords, cleaned_query) THEN "fashion"
        ELSE IF AnyKeywordIn(grocery_keywords, cleaned_query) THEN "grocery"
        ELSE "general"

detect_product_category(q) ==
    LET cleaned_query == Join(CleanedWords(q), <<" ">>)
    IN  IF AnyKeywordIn(fashion_keywords, cleaned_query) THEN "fashion"
        ELSE IF AnyKeywordIn(electronics_keywords, cleaned_query) THEN "electronics"
        ELSE IF AnyKeywordIn(grocery_keywords, cleaned_query) THEN "grocery"
        ELSE "general"

\* platform_mapping of get_relevant_platforms, src/app.py:522-536
platform_mapping ==
    [grocery |-> <<"amazon", "bigbasket", "blinkit", "swiggy_instamart">>,
     electronics |-> <<"amazon", "flipkart", "croma", "reliance_digital">>,
     fashion |-> <<"myntra", "ajio", "amazon", "flipkart">>,
     general |-> <<"amazon", "flipkart", "myntra">>]

\* a variant that answers the general platforms whatever the category
get_relevant_platforms_general(q) == platform_mapping["general"]

get_relevant_platforms(q) == platform_mapping[detect_product_category(q)]

(***************************************************************************)
(* Platform table, src/app.py:36-167 and 239-252.                          *)
(***************************************************************************)
\* a selector entry of the table: a list of selectors, one selector, or None
STARTUP_CONFIGS ==
    [amazon |->
        [name |-> "Amazon",
         base_url |-> "https://www.amazon.in",
         container |-> [kind |-> "str", selectors |-> <<"div[data-component-type=\"s-search-result\"]">>],
         link |-> [kind |-> "str", selectors |-> <<"h2 a">>],
         requires_js |-> FALSE],
     flipkart |->
        [name |-> "Flipkart",
         base_url |-> "https://www.flipkart.com",
         container |-> [kind |-> "list", selectors |-> <<"div._75nlfW", "div._13oc-S", "div._2kHMtA", "div._1xHGtK._373qXS">>],
         link |-> [kind |-> "list", selectors |-> <<"a._1fQZEK", "a.s1Q9rs", "a.IRpwTa", "a._2UzuFa">>],
         requires_js |-> TRUE],
     myntra |->
        [name |-> "Myntra",
         base_url |-> "https://www.myntra.com",
         container |-> [kind |-> "str", selectors |-> <<"li.product-base">>],
         link |-> [kind |-> "str", selectors |-> <<"a">>],
         requires_js |-> TRUE],
     ajio |->
        [name |-> "Ajio",
         base_url |-> "https://www.ajio.com",
         container |-> [kind |-> "list", selectors |-> <<"div.item.rilrtl-products-list__item", "div.item">>],
         link |-> [kind |-> "str", selectors |-> <<"a">>],
         requires_js |-> TRUE],
     croma |->
        [name |-> "Croma",
         base_url |-> "https://www.croma.com",
         container |-> [kind |-> "list", selectors |-> <<"li.product-item", "div.cp-product", "div.product-tile">>],
         link |-> [kind |-> "list", selectors |-> <<"a.product-title", "h3.product-title a">>],
         requires_js |-> FALSE],
     reliance_digital |->
        [name |-> "Reliance Digital",
         base_url |-> "https://www.reliancedigital.in",
         container |-> [kind |-> "list", selectors |-> <<"div.sp__product", "div.sp grid">>],
         link |-> [kind |-> "str", selectors |-> <<"a.sp__name">>],
         requires_js |-> TRUE],
     swiggy_instamart |->
        [name |-> "Swiggy Instamart",
         base_url |-> "https://www.swiggy.com",
         container |-> [kind |-> "str", selectors |-> <<"div[data-testid=\"product-card\"]">>],
         link |-> [kind |-> "none", selectors |-> <<>>],
         requires_js |-> TRUE],
     blinkit |->
        [name |-> "Blinkit",
         base_url |-> "https://blinkit.com",
         container |-> [kind |-> "str", selectors |-> <<"div.Product__Container">>],
         link |-> [kind |-> "none", selectors |-> <<>>],
         requires_js |-> TRUE],
     bigbasket |->
        [name |-> "BigBasket",
         base_url |-> "https://www.bigbasket.com",
         container |-> [kind |-> "list", selectors |-> <<"div.SKU-Content", "div.PaginateItems___StyledDiv">>],
         link |-> [kind |-> "str", selectors |-> <<"a">>],
         requires_js |-> TRUE]]

PlatformKeys == DOMAIN PLATFORM_CONFIGS

\* get_platform_delay: the (min, max) seconds of a platform
get_platform_delay(platform_key) ==
    CASE platform_key = "myntra" -> <<12, 20>>
      [] platform_key = "flipkart" -> <<8, 15>>
      [] platform_key = "ajio" -> <<8, 12>>
      [] platform_key = "amazon" -> <<3, 8>>
      [] platform_key = "croma" -> <<5, 10>>
      [] platform_key = "reliance_digital" -> <<5, 10>>
      [] platform_key = "swiggy_instamart" -> <<3, 6>>
      [] platform_key = "blinkit" -> <<3, 6>>
      [] platform_key = "bigbasket" -> <<4, 8>>
      [] OTHER -> <<5, 10>>

(***************************************************************************)
(* Upstream pages.  A container is what the title and price selectors find *)
(* in it: an element's text or no element.  A title text is `pad` blanks   *)
(* around `core` other characters.                                         *)
(***************************************************************************)
NoElem == [found |-> FALSE, pad |-> 0, core |-> 0, text |-> <<>>]
TitleElem(pad, core) == [found |-> TRUE, pad |-> pad, core |-> core, text |-> <<>>]
PriceElem(text) == [found |-> TRUE, pad |-> 0, core |-> 0, text |-> text]
\* a title element whose text is written out
TitleText(text) == [found |-> TRUE, pad |-> 0, core |-> Len(text), text |-> text]

\* the longest title kept: title_elem.text.strip()[:200]
TITLE_MAX == 200

\* "R" stands for the rupee sign
Cheap == [title |-> TitleElem(0, 5), price |-> PriceElem(<<"R", "9", "5">>)]
LongTitle == [title |-> TitleElem(1, 250), price |-> PriceElem(<<"R", "1", "2", "0", ".", "0", "0">>)]
Dear == [title |-> TitleElem(0, 5), price |-> PriceElem(<<"2", "0", "0">>)]
NotPriced == [title |-> TitleElem(0, 5), price |-> PriceElem(<<"f", "r", "e", "e">>)]
BlankTitle == [title |-> TitleElem(3, 0), price |-> PriceElem(<<"R", "9", "5">>)]
NoTitle == [title |-> NoElem, price |-> PriceElem(<<"R", "9", "5">>)]
NoPrice == [title |-> TitleElem(0, 5), price |-> NoElem]

Containers == {Cheap, LongTitle, Dear, NotPriced, BlankTitle, NoTitle, NoPrice}

\* what the link selectors find in a container: no element, an element
\* without href, or an element with this href ("" included)
NoLinkElem == [found |-> FALSE, has_href |-> FALSE, href |-> <<>>]
LinkWithoutHref == [found |-> TRUE, has_href |-> FALSE, href |-> <<>>]
LinkElem(href) == [found |-> TRUE, has_href |-> TRUE, href |-> href]

\* a container with a link element; the other containers have none
WithLink(c, link) == [title |-> c.title, price |-> c.price, link |-> link]
LinkOf(c) == IF "link" \in DOMAIN c THEN c.link ELSE NoLinkElem

\* a container whose processing raises, and the test for it
RaisingContainer(c) == [title |-> c.title, price |-> c.price, raises |-> TRUE]
Raises(c) == "raises" \in DOMAIN c

\* containers whose titles are written out
Galaxy ==
    [title |-> TitleText(<<"S", "a", "m", "s", "u", "n", "g", " ", "G", "a", "l", "a", "x", "y", " ", "S", "2", "4", " ", "U", "l", "t", "r", "a">>),
     price |-> PriceElem(<<"R", "1", ",", "2", "9", ",", "9", "9", "9">>)]
AmulMilk ==
    [title |-> TitleText(<<"A", "m", "u", "l", " ", "T", "a", "a", "z", "a", " ", "M", "i", "l", "k", " ", "1", "L">>),
     price |-> PriceElem(<<"R", "6", "6">>)]
AmulFree ==
    [title |-> TitleText(<<"A", "m", "u", "l", " ", "T", "a", "a", "z", "a", " ", "M", "i", "l", "k", " ", "1", "L">>),
     price |-> PriceElem(<<"f", "r", "e", "e">>)]

\* the hrefs a link element can have: absolute, site-relative, relative,
\* empty, a relative path that begins with "http", and protocol-relative
Hrefs ==
    { <<"h", "t", "t", "p", "s", ":", "/", "/", "a", ".", "i", "n", "/", "p">>,
      <<"/", "p", "/", "1">>,
      <<"p", "/", "1">>,
      <<>>,
      <<"h", "t", "t", "p", "d", "o", "c", "s", "/", "p">>,
      <<"/", "/", "a", ".", "i", "n", "/", "p">> }

LinkedContainers ==
    {WithLink(AmulMilk, LinkElem(href)) : href \in Hrefs}
    \cup {WithLink(AmulMilk, LinkWithoutHref)}

TitledContainers == {Galaxy, AmulMilk, AmulFree, NoTitle, RaisingContainer(AmulMilk)}

\* a container that raises between two that give a listing
AroundRaising == <<AmulMilk, RaisingContainer(Galaxy), Galaxy>>

\* eleven matches of one selector, the last one unlike the others
ElevenContainers == [i \in 1..11 |-> IF i < 11 THEN AmulMilk ELSE Galaxy]

\* what the container selectors after the first can find
OtherMatches ==
    { <<>>,
      <<<<AmulMilk>>>>,
      <<<<>>, <<Galaxy, AmulMilk>>, <<AmulMilk>>>>,
      <<<<>>, <<>>, <<>>>> }

\* a pdpData script of a Myntra page: the name and brand lengths and the price
\* found by pdp.get('price', {}).get('discounted', 0); parses = FALSE when the
\* extraction raises (invalid JSON, a price that is not an object)
Pdp(parses, name, brand, price) ==
    [parses |-> parses, name |-> name, brand |-> brand, price |-> price]

GoodPdp == Pdp(TRUE, 10, 4, Num(499, <<>>))
UnpricedPdp == Pdp(TRUE, 250, 4, Zero)
NullPricePdp == Pdp(TRUE, 10, 0, PyNone)
TextPricePdp == Pdp(TRUE, 10, 4, PyStr)
BrokenPdp == Pdp(FALSE, 0, 0, Zero)

Scripts == {GoodPdp, UnpricedPdp, NullPricePdp, TextPricePdp, BrokenPdp}

\* a page is its pdpData scripts, its product containers and the number of
\* bytes of its body
\* a page: `containers` is what the first (or only) container selector
\* finds in it and `others` what the selectors after the first find, in list
\* order, nothing where the sequence ends
HtmlPage(containers) ==
    [scripts |-> <<>>, containers |-> containers, others |-> <<>>, size |-> 1200]
JsonPage(scripts) == [scripts |-> scripts, containers |-> <<>>, others |-> <<>>, size |-> 1200]
LayeredPage(containers, others) == [HtmlPage(containers) EXCEPT !.others = others]

\* a response without a body, and a body of 400 bytes with one product in it
EmptyBody == [scripts |-> <<>>, containers |-> <<>>, others |-> <<>>, size |-> 0]
ShortPage == [scripts |-> <<>>, containers |-> <<Cheap>>, others |-> <<>>, size |-> 400]

\* every page of at most MaxContainers containers, and some longer ones
HtmlPages ==
    {HtmlPage(cs) : cs \in SeqsUpTo(Containers, MaxContainers)}
    \cup {HtmlPage(<<LongTitle, Cheap>>), HtmlPage(<<Dear, NotPriced, Cheap>>)}
    \cup {EmptyBody, ShortPage}

\* every Myntra page of at most MaxScripts scripts, and some longer ones
MyntraPages ==
    HtmlPages
    \cup {JsonPage(ss) : ss \in SeqsUpTo(Scripts, MaxScripts)}
    \cup {JsonPage(<<NullPricePdp, GoodPdp>>), JsonPage(<<BrokenPdp, TextPricePdp, TextPricePdp>>)}

\* a few pages: no product, one product, two products
FewPages == {EmptyBody, HtmlPage(<<Dear>>), HtmlPage(<<LongTitle, Cheap>>)}

\* the pages enumerated for a platform: all of them for Myntra and Amazon, a
\* few for the others
PagesOf(platform_key) ==
    IF platform_key = "myntra" THEN MyntraPages
    ELSE IF platform_key = "amazon" THEN HtmlPages
    ELSE FewPages

(***************************************************************************)
(* scrape_platform, src/app.py:348-457, from the HTTP response on.         *)
(***************************************************************************)
Listing(price, title, platform) == [price |-> price, title |-> title, platform |-> platform]

Min(a, b) == IF a < b THEN a ELSE b

\* extract_myntra_json_data: one product per script that parses
RECURSIVE extract_myntra_json_data(_)
extract_myntra_json_data(scripts) ==
    IF scripts = <<>> THEN <<>>
    ELSE (IF Head(scripts).parses THEN <<Head(scripts)>> ELSE <<>>)
         \o extract_myntra_json_data(Tail(scripts))

\* a listing of scrape_platform, with its url
ListingAt(price, title, platform, url) ==
    [price |-> price, title |-> title, platform |-> platform, url |-> url]

\* the urls of a listing: the search-results url of the platform, the href
\* of the link element, or the platform's base_url followed by the href
SearchUrl == [kind |-> "search_url", href |-> <<>>]
HrefUrl(href) == [kind |-> "href", href |-> href]
BaseUrlPlus(href) == [kind |-> "base_url + href", href |-> href]

\* s.startswith(p)
StartsWith(s, p) == Len(s) >= Len(p) /\ SubSeq(s, 1, Len(p)) = p

\* "Extract link": the url of the listing of a container
ExtractLink(platform_key, c) ==
    LET link_elem == LinkOf(c)
        href == link_elem.href
    IN  IF PLATFORM_CONFIGS[platform_key].link.kind = "none" THEN SearchUrl
        ELSE IF ~(link_elem.found /\ link_elem.has_href /\ href # <<>>) THEN SearchUrl
        ELSE IF StartsWith(href, <<"h", "t", "t", "p">>) THEN HrefUrl(href)
        ELSE IF StartsWith(href, <<"/">>) THEN BaseUrlPlus(href)
        ELSE SearchUrl

\* the Myntra branch: f"{prod['brand']} {prod['title']}"[:200], prod['price']
MyntraListings(json_products, name) ==
    [i \in 1..Len(json_products) |->
        ListingAt(json_products[i].price,
                  Min(json_products[i].brand + 1 + json_products[i].name, TITLE_MAX),
                  name, SearchUrl)]

\* a variant in which an exception on one container ends the loop
RECURSIVE ParseContainersAborting(_, _)
ParseContainersAborting(containers, platform_key) ==
    IF containers = <<>> THEN <<>>
    ELSE LET c == Head(containers)
             title == IF c.title.found THEN Min(c.title.core, TITLE_MAX) ELSE 0
             price == IF c.price.found THEN clean_price(c.price.text) ELSE Zero
         IN  IF Raises(c) THEN <<>>
             ELSE (IF title > 0 /\ NumLess(Zero, price)
                   THEN <<ListingAt(price, title, PLATFORM_CONFIGS[platform_key].name,
                                    ExtractLink(platform_key, c))>>
                   ELSE <<>>)
                  \o ParseContainersAborting(Tail(containers), platform_key)

\* the loop over the containers: a listing when title and price > 0; an
\* exception on a container is logged and the loop continues
RECURSIVE ParseContainers(_, _)
ParseContainers(containers, platform_key) ==
    IF containers = <<>> THEN <<>>
    ELSE LET c == Head(containers)
             title == IF c.title.found THEN Min(c.title.core, TITLE_MAX) ELSE 0
             price == IF c.price.found THEN clean_price(c.price.text) ELSE Zero
         IN  (IF ~Raises(c) /\ title > 0 /\ NumLess(Zero, price)
              THEN <<ListingAt(price, title, PLATFORM_CONFIGS[platform_key].name,
                               ExtractLink(platform_key, c))>>
              ELSE <<>>)
             \o ParseContainers(Tail(containers), platform_key)

\* soup.select(selector)[:10] for the selector at position j of the entry
Found(page, j) ==
    Prefix(IF j = 1 THEN page.containers
           ELSE IF j - 1 <= Len(page.others) THEN page.others[j - 1]
           ELSE <<>>,
           10)

\* the positions of the container selectors the loop evaluates: it stops at
\* the first one that finds something
RECURSIVE SelectorsTried(_, _, _)
SelectorsTried(page, j, n) ==
    IF j > n THEN <<>>
    ELSE IF Found(page, j) # <<>> THEN <<j>>
    ELSE <<j>> \o SelectorsTried(page, j + 1, n)

\* a variant that evaluates every selector of a list and merges what they find
SelectContainersMerging(platform_key, page) ==
    LET n == Len(PLATFORM_CONFIGS[platform_key].container.selectors)
    IN  [tried |-> [j \in 1..n |-> j],
         containers |-> Concat([j \in 1..n |-> Found(page, j)])]

\* "Find product containers": the selectors evaluated and the containers kept
SelectContainers(platform_key, page) ==
    LET container_selectors == PLATFORM_CONFIGS[platform_key].container
        tried == SelectorsTried(page, 1, Len(container_selectors.selectors))
    IN  IF container_selectors.kind = "list"
        THEN [tried |-> tried,
              containers |-> IF tried = <<>> THEN <<>> ELSE Found(page, tried[Len(tried)])]
        ELSE [tried |-> <<1>>, containers |-> Found(page, 1)]

\* the listings of a fetched response
ParseResponse(platform_key, status, page) ==
    LET name == PLATFORM_CONFIGS[platform_key].name
        json == IF platform_key = "myntra"
                THEN MyntraListings(Prefix(extract_myntra_json_data(page.scripts), 10), name)
                ELSE <<>>
    IN  IF status # 200 THEN <<>>
        ELSE IF json # <<>> THEN json
        ELSE ParseContainers(SelectContainers(platform_key, page).containers, platform_key)

(***************************************************************************)
(* list.sort(key=lambda x: x['price']), src/app.py:610.                    *)
(***************************************************************************)
\* a < b between two prices of the same kind that Python can compare
PyLess(a, b) == a.kind = "num" /\ b.kind = "num" /\ NumLess(a, b)

\* the sort raises TypeError when it has to compare None with anything, or
\* a number with a string; a list shorter than 2 is never compared
SortRaises(products) ==
    /\ Len(products) >= 2
    /\ \/ \E i \in 1..Len(products) : products[i].price.kind = "none"
       \/ \E i, j \in 1..Len(products) : products[i].price.kind # products[j].price.kind

\* x goes after every element that is not greater than it: the sort is stable
RECURSIVE InsertSorted(_, _)
InsertSorted(sorted, x) ==
    IF sorted = <<>> THEN <<x>>
    ELSE IF PyLess(x.price, Head(sorted).price) THEN <<x>> \o sorted
    ELSE <<Head(sorted)>> \o InsertSorted(Tail(sorted), x)

RECURSIVE SortFrom(_, _)
SortFrom(rest, sorted) ==
    IF rest = <<>> THEN sorted ELSE SortFrom(Tail(rest), InsertSorted(sorted, Head(rest)))

\* a variant that sorts in descending order of price
SortByPriceDescending(products) ==
    LET asc == SortFrom(products, <<>>)
    IN  [i \in 1..Len(asc) |-> asc[Len(asc) + 1 - i]]

SortByPrice(products) == SortFrom(products, <<>>)

(***************************************************************************)
(* POST /scrape/prices, src/app.py:575-640.                                *)
(***************************************************************************)
\* "Limit platforms for Railway timeout (max 3 platforms)"
MAX_PLATFORMS == 3

\* the JSON bodies posted: product_name is a text, null, or missing;
\* platforms is a list of keys (<<>> also stands for a missing list)
RequestNames ==
    { <<>>, <<" ", " ">>, <<" ", "m", "i", "l", "k", " ">>, <<"n", "i", "k", "e", " ", "s", "h", "o", "e", "s">> }

RequestPlatforms ==
    { <<>>,
      <<"amazon", "flipkart">>,
      <<"bogus", "amazon">>,
      <<"amazon", "amazon">>,
      <<"myntra", "amazon">>,
      <<"bogus">>,
      <<"bogus", "myntra">>,
      <<"croma", "bogus", "flipkart", "myntra">> }

\* every name with every platforms list, the longest name with the shortest
\* lists only
RequestBodies ==
    {b \in {[name |-> "text", text |-> t, platforms |-> p] :
                t \in RequestNames, p \in RequestPlatforms} :
        Len(b.text) > 6 => Len(b.platforms) <= 1}
    \cup {[name |-> k, text |-> <<>>, platforms |-> <<>>] : k \in {"missing", "null"}}

NoRequest == [name |-> "none", text |-> <<>>, platforms |-> <<>>]

NoResponse ==
    [status |-> 0, success |-> FALSE, error |-> "", products |-> <<>>, category |-> "",
     platforms_searched |-> <<>>, platforms_with_results |-> <<>>,
     total_results |-> 0, cheapest |-> <<>>]

\* jsonify({'success': False, 'error': ...}), status
ErrorResponse(status, error) == [NoResponse EXCEPT !.status = status, !.error = error]

\* the orders list(set(...)) can give the elements of a set
OrdersOf(S) ==
    {s \in [1..Cardinality(S) -> S] : \A i, j \in 1..Cardinality(S) : i # j => s[i] # s[j]}

\* a variant that keeps the whole list
limit_platforms_keeping_all(chosen) == chosen

\* "if len(platforms) > 3: platforms = platforms[:3]"
limit_platforms(chosen) == Prefix(chosen, MAX_PLATFORMS)

\* scrape_prices_endpoint up to the scraping loop, for the request `posted`
\* whose get_json() gives `body`: the name is read and validated, the
\* platforms are resolved and clamped
scrape_prices_endpoint(posted, body) ==
    /\ entry = "app"
    /\ pc = "idle"
    /\ request' = posted
    /\ IF body.name = "null"
       THEN \* None.strip() raises; the handler's except answers 500
            /\ response' = ErrorResponse(500, "AttributeError")
            /\ pc' = "done"
            /\ UNCHANGED <<product_name, custom_platforms, category, platforms>>
       ELSE LET name == Strip(IF body.name = "missing" THEN <<>> ELSE body.text)
                chosen == IF body.platforms # <<>> THEN body.platforms
                          ELSE get_relevant_platforms(name)
            IN  /\ product_name' = name
                /\ custom_platforms' = body.platforms
                /\ IF name = <<>>
                   THEN /\ response' = ErrorResponse(400, "Missing product_name in request")
                        /\ pc' = "done"
                        /\ UNCHANGED <<category, platforms>>
                   ELSE /\ category' = detect_product_category(name)
                        /\ platforms' = limit_platforms(chosen)
                        /\ pc' = "scraping"
                        /\ UNCHANGED response
    /\ UNCHANGED <<idx, phase, delay, all_results, returned, outcomes, rate_limited, fetches,
                   SCRAPER_API_KEY, PLATFORM_CONFIGS, calls>>
    /\ UNCHANGED <<entry, scraperVars, priceVars, categoryVars, routineVars, repeatVars>>

\* POST /scrape/prices
ReceiveRequest(body) == scrape_prices_endpoint(body, body)

(***************************************************************************)
(* POST /query/price/, src/app.py:642-666.                                 *)
(***************************************************************************)
\* a variant of the list that lacks its last word
query_price_remove_words_short ==
    <<<<"f", "i", "n", "d">>, <<"s", "e", "a", "r", "c", "h">>, <<"p", "r", "i", "c", "e">>,
      <<"p", "r", "i", "c", "e", "s">>, <<"c", "o", "s", "t">>, <<"c", "h", "e", "a", "p">>,
      <<"c", "h", "e", "a", "p", "e", "s", "t">>, <<"f", "o", "r">>>>

\* remove_words of query_price_endpoint
query_price_remove_words ==
    <<<<"f", "i", "n", "d">>, <<"s", "e", "a", "r", "c", "h">>, <<"p", "r", "i", "c", "e">>,
      <<"p", "r", "i", "c", "e", "s">>, <<"c", "o", "s", "t">>, <<"c", "h", "e", "a", "p">>,
      <<"c", "h", "e", "a", "p", "e", "s", "t">>, <<"f", "o", "r">>, <<"o", "f">>>>

\* product_words: the words of query.lower().split() that are not remove_words
product_words(q) ==
    LET words == Split(Lower(q))
        Kept(wd) == wd \notin Range(query_price_remove_words)
    IN  SelectSeq(words, Kept)

\* the free-text queries posted: some words, one blank apart or two
QueryWordLists ==
    { <<>>,
      <<<<"c", "h", "e", "a", "p", "e", "s", "t">>, <<"o", "f">>>>,
      <<<<"F", "i", "n", "d">>, <<"M", "i", "l", "k">>, <<"p", "r", "i", "c", "e">>>>,
      <<<<"b", "u", "y">>, <<"i", "p", "h", "o", "n", "e">>, <<"f", "o", "r">>>> }

\* the queries of at most two words in both spacings, the longer ones with
\* two blanks between the words only
QueryBodies ==
    {[name |-> "query", text |-> WriteQuery(ws, spaced), platforms |-> <<>>] :
        ws \in QueryWordLists, spaced \in BOOLEAN}
    \ {[name |-> "query", text |-> WriteQuery(ws, FALSE), platforms |-> <<>>] :
          ws \in {w \in QueryWordLists : Len(w) > 2}}

\* the product name is extracted and handed to scrape_prices_endpoint
query_price_endpoint(body) ==
    LET q == Strip(body.text)
        name == Strip(Join(product_words(q), <<" ">>))
    IN  IF name = <<>>
        THEN /\ entry = "app"
             /\ pc = "idle"
             /\ request' = body
             /\ response' = ErrorResponse(400, "Could not extract product name")
             /\ pc' = "done"
             /\ UNCHANGED <<product_name, custom_platforms, category, platforms, idx, phase,
                            delay, all_results, returned, outcomes, rate_limited, fetches,
                            SCRAPER_API_KEY, PLATFORM_CONFIGS, calls>>
             /\ UNCHANGED <<entry, scraperVars, priceVars, categoryVars, routineVars, repeatVars>>
        ELSE scrape_prices_endpoint(body, [name |-> "text", text |-> name, platforms |-> <<>>])

ReceiveQuery ==
    /\ entry = "app"
    /\ pc = "idle"
    /\ \E body \in QueryBodies : query_price_endpoint(body)

InLoop == entry = "app" /\ pc = "scraping" /\ idx <= Len(platforms)

\* one scrape_platform call: the requests scrape_with_scraperapi issued, the
\* status and body size of the response (0 when there is none), and whether
\* the body went to the parser
Call(requests, status, size, parsed, params) ==
    [requests |-> requests, status |-> status, size |-> size, parsed |-> parsed,
     params |-> params]

\* no ScraperAPI parameters: the request is direct, or there is none
NoParams ==
    [country_code |-> "", render |-> FALSE, wait_for_selector |-> "", premium |-> FALSE,
     session_number |-> FALSE, device_type |-> ""]

NoCall == Call(<<>>, 0, 0, FALSE, NoParams)

\* scrape_platform returns [] for a key that is not in PLATFORM_CONFIGS
SkipUnknownPlatform ==
    /\ InLoop
    /\ phase = "start"
    /\ platforms[idx] \notin PlatformKeys
    /\ returned' = Append(returned, <<>>)
    /\ outcomes' = Append(outcomes, "unknown")
    /\ calls' = Append(calls, NoCall)
    /\ idx' = idx + 1
    /\ UNCHANGED <<pc, request, product_name, custom_platforms, category, platforms, phase,
                   delay, all_results, rate_limited, fetches, response, SCRAPER_API_KEY, PLATFORM_CONFIGS>>
    /\ UNCHANGED <<entry, scraperVars, priceVars, categoryVars, routineVars, repeatVars>>

\* a variant that sleeps within the default range whatever the platform
ApplyRateLimitingDefaultRange ==
    /\ InLoop
    /\ phase = "start"
    /\ platforms[idx] \in PlatformKeys
    /\ \E d \in 5..10 : delay' = d
    /\ rate_limited' = rate_limited + 1
    /\ phase' = "fetch"
    /\ UNCHANGED <<pc, request, product_name, custom_platforms, category, platforms, idx,
                   all_results, returned, outcomes, fetches, response, SCRAPER_API_KEY, PLATFORM_CONFIGS, calls>>
    /\ UNCHANGED <<entry, scraperVars, priceVars, categoryVars, routineVars, repeatVars>>

\* apply_rate_limiting: time.sleep(random.uniform(min_delay, max_delay))
ApplyRateLimiting ==
    /\ InLoop
    /\ phase = "start"
    /\ platforms[idx] \in PlatformKeys
    /\ \E d \in get_platform_delay(platforms[idx])[1]..get_platform_delay(platforms[idx])[2] :
          delay' = d
    /\ rate_limited' = rate_limited + 1
    /\ phase' = "fetch"
    /\ UNCHANGED <<pc, request, product_name, custom_platforms, category, platforms, idx,
                   all_results, returned, outcomes, fetches, response, SCRAPER_API_KEY, PLATFORM_CONFIGS, calls>>
    /\ UNCHANGED <<entry, scraperVars, priceVars, categoryVars, routineVars, repeatVars>>

\* what scrape_platform returns once the fetch has ended as `outcome`
PlatformResults(platform_key, outcome, page) ==
    IF outcome = "http_200" THEN ParseResponse(platform_key, 200, page)
    ELSE IF outcome = "http_503" THEN ParseResponse(platform_key, 503, page)
    ELSE <<>>

\* a variant in which an exception of one platform's fetch empties the list
CollectAbortingOnError(collected, results, outcome) ==
    IF outcome \in {"timeout", "connection_error", "exception"} THEN <<>>
    ELSE collected \o results

\* all_results.extend(results)
Collect(collected, results, outcome) == collected \o results

\* a variant that asks again, directly, when the request has failed
scrape_with_scraperapi_retrying(outcome) ==
    IF outcome = "http_200" THEN <<"direct">> ELSE <<"direct", "direct">>

\* scrape_with_scraperapi: the requests it issues, in order; the direct
\* request when no key is configured, the ScraperAPI request otherwise, and
\* nothing after it whether it returns or raises
scrape_with_scraperapi(outcome) ==
    IF ~SCRAPER_API_KEY THEN <<"direct">> ELSE <<"scraperapi">>

\* the params dictionary get_scraperapi_params builds from the platform's
\* entry of the table; session_number says whether the key is present
ScraperApiParams(platform_key, configs) ==
    LET config == configs[platform_key]
    IN  [country_code |-> "in",
         render |-> config.requires_js,
         wait_for_selector |->
             IF config.requires_js /\ config.container.kind # "none"
             THEN config.container.selectors[1] ELSE "",
         premium |-> platform_key \in {"flipkart", "myntra", "ajio"},
         session_number |-> platform_key \in {"flipkart", "myntra"},
         device_type |->
             IF platform_key \in {"swiggy_instamart", "blinkit", "bigbasket"} THEN "mobile"
             ELSE ""]

\* a variant that stores the selector it waits for in the platform's entry
get_scraperapi_params_storing_selector(platform_key, configs) ==
    [params |-> ScraperApiParams(platform_key, configs),
     configs |->
         IF configs[platform_key].requires_js
         THEN [configs EXCEPT ![platform_key].container =
                  [kind |-> "str", selectors |-> <<@.selectors[1]>>]]
         ELSE configs]

\* get_scraperapi_params: the dictionary it returns, and the table after the
\* call
get_scraperapi_params(platform_key, configs) ==
    [params |-> ScraperApiParams(platform_key, configs), configs |-> configs]

StatusOf(outcome) ==
    IF outcome = "http_200" THEN 200 ELSE IF outcome = "http_503" THEN 503 ELSE 0

\* "if response.status_code == 200:" guards the parsing
IsParsed(status, size) == status = 200

\* the HTTP request ends (a response, or an exception that scrape_platform
\* catches), the page is parsed and the loop takes the results
FetchAndParse(outcome, page) ==
    /\ InLoop
    /\ phase = "fetch"
    /\ LET results == PlatformResults(platforms[idx], outcome, page)
       IN  /\ all_results' = Collect(all_results, results, outcome)
           /\ returned' = Append(returned, results)
    /\ LET built == IF SCRAPER_API_KEY
                     THEN get_scraperapi_params(platforms[idx], PLATFORM_CONFIGS)
                     ELSE [params |-> NoParams, configs |-> PLATFORM_CONFIGS]
       IN  /\ calls' = Append(calls, Call(scrape_with_scraperapi(outcome), StatusOf(outcome),
                                          page.size, IsParsed(StatusOf(outcome), page.size),
                                          built.params))
           /\ PLATFORM_CONFIGS' = built.configs
    /\ outcomes' = Append(outcomes, outcome)
    /\ fetches' = fetches + 1
    /\ idx' = idx + 1
    /\ phase' = "start"
    /\ delay' = 0
    /\ UNCHANGED <<pc, request, product_name, custom_platforms, category, platforms,
                   rate_limited, response, SCRAPER_API_KEY>>
    /\ UNCHANGED <<entry, scraperVars, priceVars, categoryVars, routineVars, repeatVars>>

FetchOutcomes == {"http_200", "http_503", "timeout", "connection_error", "exception"}

Fetch ==
    \E outcome \in FetchOutcomes :
        \E page \in (IF outcome = "http_200" /\ InLoop THEN PagesOf(platforms[idx])
                     ELSE IF outcome = "http_503" THEN {ShortPage}
                     ELSE {EmptyBody}) :
            FetchAndParse(outcome, page)

\* a variant that reports the platform of the first product only
PlatformsOfFirstProduct(products) ==
    IF products = <<>> THEN {} ELSE {products[1].platform}

\* the names of the platforms that have a listing in products
PlatformsWithResults(products) == {products[i].platform : i \in 1..Len(products)}

\* a variant that reports success whatever the number of products
SuccessResponseAlwaysTrue(products, with_results) ==
    [status |-> 200,
     success |-> TRUE,
     error |-> "",
     products |-> products,
     category |-> category,
     platforms_searched |-> platforms,
     platforms_with_results |-> with_results,
     total_results |-> Len(products),
     cheapest |-> IF products # <<>> THEN <<products[1]>> ELSE <<>>]

\* the 200 response built from the sorted products
SuccessResponse(products, with_results) ==
    [status |-> 200,
     success |-> Len(products) > 0,
     error |-> "",
     products |-> products,
     category |-> category,
     platforms_searched |-> platforms,
     platforms_with_results |-> with_results,
     total_results |-> Len(products),
     cheapest |-> IF products # <<>> THEN <<products[1]>> ELSE <<>>]

\* the loop is over: sort, statistics, response; an exception answers 500
Respond ==
    /\ entry = "app"
    /\ pc = "scraping"
    /\ idx > Len(platforms)
    /\ IF SortRaises(all_results)
       THEN /\ response' = ErrorResponse(500, "TypeError")
            /\ UNCHANGED all_results
       ELSE /\ all_results' = SortByPrice(all_results)
            /\ \E with_results \in OrdersOf(PlatformsWithResults(all_results)) :
                  response' = SuccessResponse(all_results', with_results)
    /\ pc' = "done"
    /\ UNCHANGED <<request, product_name, custom_platforms, category, platforms, idx, phase,
                   delay, returned, outcomes, rate_limited, fetches, SCRAPER_API_KEY, PLATFORM_CONFIGS, calls>>
    /\ UNCHANGED <<entry, scraperVars, priceVars, categoryVars, routineVars, repeatVars>>

(***************************************************************************)
(* _async_scrape_all, src/scraper.py:71-138.                               *)
(***************************************************************************)
\* the (platform_name, task) pairs, in the order they are appended
Tasks ==
    <<"Amazon", "Flipkart", "Snapdeal", "Croma">>
    \o (IF CRAWL4AI_AVAILABLE THEN <<"Swiggy", "Zepto", "Blinkit">> ELSE <<>>)

\* the prices a scraper can return: the HTML scrapers skip a price of 0, the
\* Croma scraper takes any number of the JSON-LD offer, the quick-commerce
\* scrapers any run of digits after the rupee sign
TaskPrices(platform_name) ==
    IF platform_name \in {"Amazon", "Flipkart", "Snapdeal"}
    THEN {<<>>, <<Num(95, <<>>)>>}
    ELSE IF platform_name = "Croma"
    THEN {<<>>, <<Num(120, <<>>), Zero, Num(95, <<>>)>>, <<Num(-5, <<>>)>>}
    ELSE {<<>>, <<Zero>>, <<Num(60, <<>>)>>}

Product(platform_name, price) ==
    [platform |-> platform_name, price |-> price, is_cheapest |-> FALSE]

TaskProducts(platform_name) ==
    {[i \in 1..Len(ps) |-> Product(platform_name, ps[i])] : ps \in TaskPrices(platform_name)}

NoResult ==
    [returned |-> FALSE, success |-> FALSE, products |-> <<>>, total_count |-> 0,
     errors |-> <<>>, cheapest |-> <<>>, platforms_searched |-> <<>>]

InTasks == entry = "scraper" /\ s_pc = "tasks" /\ s_idx <= Len(Tasks)

\* "await task" is reached for task j: a coroutine object does not run until
\* it is awaited, and the loop awaits one task at a time
AwaitTask(j) ==
    /\ InTasks
    /\ j = s_idx
    /\ running = 0
    /\ running' = j
    /\ UNCHANGED <<CRAWL4AI_AVAILABLE, s_pc, s_idx, all_products, errors, task_results,
                   s_result>>
    /\ UNCHANGED <<entry, appVars, priceVars, categoryVars, routineVars, repeatVars>>

\* "products = await task" returns
TaskReturns ==
    /\ InTasks
    /\ running = s_idx
    /\ running' = 0
    /\ \E products \in TaskProducts(Tasks[s_idx]) :
          /\ all_products' = all_products \o products
          /\ task_results' = Append(task_results, products)
    /\ s_idx' = s_idx + 1
    /\ UNCHANGED <<CRAWL4AI_AVAILABLE, s_pc, errors, s_result>>
    /\ UNCHANGED <<entry, appVars, priceVars, categoryVars, routineVars, repeatVars>>

\* "products = await task" raises: the scraper's "Network timeout"
TaskRaises ==
    /\ InTasks
    /\ running = s_idx
    /\ running' = 0
    /\ errors' = Append(errors, Tasks[s_idx])
    /\ task_results' = Append(task_results, <<>>)
    /\ s_idx' = s_idx + 1
    /\ UNCHANGED <<CRAWL4AI_AVAILABLE, s_pc, all_products, s_result>>
    /\ UNCHANGED <<entry, appVars, priceVars, categoryVars, routineVars, repeatVars>>

HasPositivePrice(p) == NumLess(Zero, p.price)

\* a variant that flags every product priced like the first one
MarkCheapestByPrice(valid_products) ==
    [i \in 1..Len(valid_products) |->
        [valid_products[i] EXCEPT
            !.is_cheapest = (valid_products[i].price = valid_products[1].price)]]

\* valid_products[0]['is_cheapest'] = True
MarkCheapest(valid_products) ==
    IF valid_products = <<>> THEN valid_products
    ELSE [valid_products EXCEPT ![1].is_cheapest = TRUE]

\* the tasks are over: filter, sort, mark the cheapest, return
ScraperReturns ==
    /\ entry = "scraper"
    /\ s_pc = "tasks"
    /\ s_idx > Len(Tasks)
    /\ LET valid_products == MarkCheapest(SortByPrice(SelectSeq(all_products, HasPositivePrice)))
       IN  s_result' =
             [returned |-> TRUE,
              success |-> Len(valid_products) > 0,
              products |-> valid_products,
              total_count |-> Len(valid_products),
              errors |-> errors,
              cheapest |-> IF valid_products # <<>> THEN <<valid_products[1]>> ELSE <<>>,
              platforms_searched |-> Tasks]
    /\ s_pc' = "done"
    /\ UNCHANGED <<CRAWL4AI_AVAILABLE, s_idx, running, all_products, errors, task_results>>
    /\ UNCHANGED <<entry, appVars, priceVars, categoryVars, routineVars, repeatVars>>

(***************************************************************************)
(* The pure functions, each applied once to an enumerated argument.        *)
(***************************************************************************)
PriceAlphabet == {"0", "1", ".", "x"}

RupeeLakh == <<"R", "1", ",", "2", "3", ",", "4", "5", "6", ".", "0", "0">>
Free == <<"f", "r", "e", "e">>

PriceTexts ==
    SeqsUpTo(PriceAlphabet, MaxPriceLen)
    \cup {RupeeLakh, Free, <<"R", "9", "5">>,<<"1", ".", "2", ".", "3">>,<<"9", "9", "9", "9", "9", "9", "9", ".", "9", "9">>,<<"0", "0", "0", "1", "2", ".", "5", "0">>}

CleanPrice ==
    /\ entry = "clean_price"
    /\ price_result = NotRun
    /\ price_result' = clean_price(price_text)
    /\ UNCHANGED <<price_text, entry, appVars, scraperVars, categoryVars, routineVars, repeatVars>>

Vocabulary ==
    { <<"s", "h", "o", "e">>,
      <<"i", "p", "h", "o", "n", "e">>,
      <<"M", "i", "l", "k">>,
      <<"p", "i", "n", "e", "a", "p", "p", "l", "e">>,
      <<"p", "r", "i", "c", "e">>,
      <<"r", "i", "c", "e">>,
      <<"l", "a", "m", "p">>,
      <<"b", "u", "y">> }

DetectCategory ==
    /\ entry = "detect_product_category"
    /\ category_result = ""
    /\ category_result' = detect_product_category(query)
    /\ UNCHANGED <<query, query_words, entry, appVars, scraperVars, priceVars, routineVars, repeatVars>>

(***************************************************************************)
(* The scraping routines, each applied once to what its sites answer.      *)
(***************************************************************************)
NoUpstream == [platform_key |-> "", outcome |-> "", page |-> EmptyBody]
NotCalled == [called |-> FALSE, listings |-> <<>>]
Returned(results) == [called |-> TRUE, listings |-> results]
\* what scrape_platform returns, with the container selectors it evaluated
ReturnedTrying(results, tried) == [called |-> TRUE, listings |-> results, tried |-> tried]

RoutineQueries ==
    { <<"m", "i", "l", "k">>,
      <<"s", "a", "m", "s", "u", "n", "g", " ", "g", "a", "l", "a", "x", "y", " ", "s", "2", "4">>,
      <<"l", "a", "m", "p">> }

\* scrape_platform of app.py from the response on: the listings of the page
ParsePage ==
    /\ entry = "scrape_platform"
    /\ routine_result = NotCalled
    /\ routine_result' =
          ReturnedTrying(PlatformResults(upstream.platform_key, upstream.outcome, upstream.page),
                         IF upstream.outcome = "http_200"
                         THEN SelectContainers(upstream.platform_key, upstream.page).tried
                         ELSE <<>>)
    /\ UNCHANGED <<routine_query, upstream, entry, appVars, scraperVars, priceVars, categoryVars,
                   repeatVars>>

(***************************************************************************)
(* scrape_prices, src/services/backendScraper.py:27-173.  Each of the four  *)
(* sites answers with a page or its request raises; an item of a page is    *)
(* what the title and price lookups find in it, and every item has the      *)
(* link its markup is expected to have.  Prices are whole rupees.           *)
(***************************************************************************)
\* the longest title kept: .text.strip()[:100]
SERVICE_TITLE_MAX == 100

\* float(re.sub(r'[^\d]', '', text)): [ok, value]; ok = FALSE is ValueError
DigitsOnlyPrice(text) == ParseFloat(SelectSeq(text, IsDigit))

\* get_estimated_price, src/services/backendScraper.py:177-221
get_estimated_price(name) ==
    LET q == Lower(name)
    IN
        IF IsSubstring(<<"a", "p", "p", "l", "e">>, q) \/ IsSubstring(<<"b", "a", "n", "a", "n", "a">>, q) \/ IsSubstring(<<"f", "r", "u", "i", "t">>, q) THEN 150 ELSE
        IF IsSubstring(<<"m", "i", "l", "k">>, q) THEN 60 ELSE
        IF IsSubstring(<<"b", "r", "e", "a", "d">>, q) THEN 40 ELSE
        IF IsSubstring(<<"r", "i", "c", "e">>, q) THEN 80 ELSE
        IF IsSubstring(<<"i", "p", "h", "o", "n", "e">>, q) THEN 65000 ELSE
        IF IsSubstring(<<"s", "a", "m", "s", "u", "n", "g">>, q) /\ IsSubstring(<<"p", "h", "o", "n", "e">>, q) THEN 25000 ELSE
        IF IsSubstring(<<"l", "a", "p", "t", "o", "p">>, q) THEN 45000 ELSE
        IF IsSubstring(<<"h", "e", "a", "d", "p", "h", "o", "n", "e", "s">>, q) THEN 3000 ELSE
        IF IsSubstring(<<"t", "v">>, q) THEN 35000 ELSE
        IF IsSubstring(<<"c", "a", "m", "e", "r", "a">>, q) THEN 15000 ELSE
        IF IsSubstring(<<"s", "h", "i", "r", "t">>, q) THEN 800 ELSE
        IF IsSubstring(<<"j", "e", "a", "n", "s">>, q) THEN 1500 ELSE
        IF IsSubstring(<<"s", "h", "o", "e", "s">>, q) THEN 2500 ELSE
        IF IsSubstring(<<"f", "u", "r", "n", "i", "t", "u", "r", "e">>, q) \/ IsSubstring(<<"s", "o", "f", "a">>, q) \/ IsSubstring(<<"c", "h", "a", "i", "r">>, q) THEN 8000 ELSE
        IF IsSubstring(<<"k", "i", "t", "c", "h", "e", "n">>, q) \/ IsSubstring(<<"u", "t", "e", "n", "s", "i", "l">>, q) THEN 500 ELSE
        1000

\* the Amazon section: the first 5 items; a listing for every item with a
\* price element whose text holds a digit, the title "" when there is no h2
RECURSIVE AmazonSection(_)
AmazonSection(items) ==
    IF items = <<>> THEN <<>>
    ELSE LET item == Head(items)
             title == IF item.title.found THEN Prefix(Strip(item.title.text), SERVICE_TITLE_MAX)
                      ELSE <<>>
             price == DigitsOnlyPrice(item.price.text)
         IN  (IF item.price.found /\ price.ok THEN <<Listing(price.value, title, "Amazon")>>
              ELSE <<>>)
             \o AmazonSection(Tail(items))

\* the Flipkart section: the first 5 price elements; the title of the parent
\* or "Product"
RECURSIVE FlipkartSection(_)
FlipkartSection(items) ==
    IF items = <<>> THEN <<>>
    ELSE LET item == Head(items)
             title == IF item.title.found THEN Prefix(Strip(item.title.text), SERVICE_TITLE_MAX)
                      ELSE <<"P", "r", "o", "d", "u", "c", "t">>
             price == DigitsOnlyPrice(item.price.text)
         IN  (IF price.ok THEN <<Listing(price.value, title, "Flipkart")>> ELSE <<>>)
             \o FlipkartSection(Tail(items))

\* the Croma section: the first 3 price elements with a price above 0; the
\* title of the parent or f"{product_name} - Product {i+1}"
RECURSIVE CromaSection(_, _, _)
CromaSection(items, i, name) ==
    IF items = <<>> THEN <<>>
    ELSE LET item == Head(items)
             title == IF item.title.found THEN Prefix(Strip(item.title.text), SERVICE_TITLE_MAX)
                      ELSE name \o <<" ", "-", " ", "P", "r", "o", "d", "u", "c", "t", " ">> \o IntToText(i + 1)
             price == DigitsOnlyPrice(item.price.text)
         IN  (IF price.ok /\ NumLess(Zero, price.value)
              THEN <<Listing(price.value, title, "Croma")>>
              ELSE <<>>)
             \o CromaSection(Tail(items), i + 1, name)

\* what the Croma section adds when it raises: a listing at
\* int(get_estimated_price(product_name) * 1.03), with the fields of a
\* scraped listing
CromaFallback(name) ==
    <<Listing(Num((get_estimated_price(name) * 103) \div 100, <<>>),
              name \o <<" ", "-", " ", "A", "v", "a", "i", "l", "a", "b", "l", "e", " ", "a", "t", " ", "C", "r", "o", "m", "a">>,
              "Croma")>>

\* the Snapdeal section: the first 3 items; an item without a title or a
\* price element raises and is skipped
RECURSIVE SnapdealSection(_)
SnapdealSection(items) ==
    IF items = <<>> THEN <<>>
    ELSE LET item == Head(items)
             price == DigitsOnlyPrice(item.price.text)
         IN  (IF item.title.found /\ item.price.found /\ price.ok
              THEN <<Listing(price.value, Prefix(Strip(item.title.text), SERVICE_TITLE_MAX),
                             "Snapdeal")>>
              ELSE <<>>)
             \o SnapdealSection(Tail(items))

\* the price elements a page holds
WithPriceElement(items) == SelectSeq(items, LAMBDA item : item.price.found)

\* the first listing of every (platform, price) pair
RECURSIVE UniqueResults(_, _)
UniqueResults(results, seen_prices) ==
    IF results = <<>> THEN <<>>
    ELSE LET price_key == <<Head(results).platform, Head(results).price>>
         IN  IF price_key \in seen_prices THEN UniqueResults(Tail(results), seen_prices)
             ELSE <<Head(results)>> \o UniqueResults(Tail(results), seen_prices \cup {price_key})

\* the results list when the four sections are over
collected_prices(name, sites) ==
    LET stripped == Strip(name)
        amazon == IF sites.amazon.raised THEN <<>>
                  ELSE AmazonSection(Prefix(sites.amazon.items, 5))
        flipkart == IF sites.flipkart.raised THEN <<>>
                    ELSE FlipkartSection(Prefix(WithPriceElement(sites.flipkart.items), 5))
        croma == IF sites.croma.raised THEN CromaFallback(stripped)
                 ELSE CromaSection(Prefix(WithPriceElement(sites.croma.items), 3), 0,
                                   stripped)
        snapdeal == IF sites.snapdeal.raised THEN <<>>
                    ELSE SnapdealSection(Prefix(sites.snapdeal.items, 3))
    IN  amazon \o flipkart \o croma \o snapdeal

\* a variant that keeps every collected listing
scrape_prices_keeping_all(name, sites) == SortByPrice(collected_prices(name, sites))

scrape_prices(name, sites) == SortByPrice(UniqueResults(collected_prices(name, sites), {}))

\* what a site answers: its request raises, or a page with these items
Raised == [raised |-> TRUE, items |-> <<>>]
Answered(items) == [raised |-> FALSE, items |-> items]

NoPriceText ==
    [title |-> TitleText(<<"A", "m", "u", "l", " ", "T", "a", "a", "z", "a", " ", "M", "i", "l", "k", " ", "1", "L">>), price |-> NoElem]

FewAnswers == {Raised, Answered(<<>>), Answered(<<AmulMilk>>)}
\* another title at the price of AmulMilk
AmulGold ==
    [title |-> TitleText(<<"A", "m", "u", "l", " ", "G", "o", "l", "d", " ", "M", "i", "l", "k", " ", "1", "L">>), price |-> PriceElem(<<"R", "6", "6">>)]

ServiceItems == {Galaxy, AmulMilk, AmulGold, AmulFree, NoTitle, NoPriceText}
ServiceAnswers == {Raised} \cup {Answered(items) : items \in SeqsUpTo(ServiceItems, MaxContainers + 1)}

ScrapePrices ==
    /\ entry = "scrape_prices"
    /\ routine_result = NotCalled
    /\ routine_result' = Returned(scrape_prices(routine_query, upstream))
    /\ UNCHANGED <<routine_query, upstream, entry, appVars, scraperVars, priceVars, categoryVars,
                   repeatVars>>

(***************************************************************************)
(* PlatformScraper.scrape_amazon, src/services/backendScraperV2.py:64-138.  *)
(* random.random() is drawn in hundredths, one draw per product.            *)
(***************************************************************************)
\* _get_realistic_price, src/services/backendScraperV2.py:265-290
get_realistic_price(search, randint) ==
    LET q == Lower(search)
    IN
        IF IsSubstring(<<"i", "p", "h", "o", "n", "e", " ", "1", "5">>, q) THEN 79900 ELSE
        IF IsSubstring(<<"i", "p", "h", "o", "n", "e", " ", "1", "4">>, q) THEN 69900 ELSE
        IF IsSubstring(<<"s", "a", "m", "s", "u", "n", "g", " ", "g", "a", "l", "a", "x", "y", " ", "s", "2", "4">>, q) THEN 74999 ELSE
        IF IsSubstring(<<"m", "a", "c", "b", "o", "o", "k">>, q) THEN 114900 ELSE
        IF IsSubstring(<<"l", "a", "p", "t", "o", "p">>, q) THEN 45000 ELSE
        IF IsSubstring(<<"a", "i", "r", "p", "o", "d", "s">>, q) THEN 24900 ELSE
        IF IsSubstring(<<"h", "e", "a", "d", "p", "h", "o", "n", "e", "s">>, q) THEN 8000 ELSE
        IF IsSubstring(<<"n", "i", "k", "e", " ", "s", "h", "o", "e", "s">>, q) THEN 7000 ELSE
        IF IsSubstring(<<"a", "d", "i", "d", "a", "s">>, q) THEN 6500 ELSE
        IF IsSubstring(<<"j", "e", "a", "n", "s">>, q) THEN 2500 ELSE
        IF IsSubstring(<<"s", "h", "i", "r", "t">>, q) THEN 1500 ELSE
        IF IsSubstring(<<"a", "l", "m", "o", "n", "d", "s">>, q) THEN 800 ELSE
        IF IsSubstring(<<"c", "a", "s", "h", "e", "w", "s">>, q) THEN 1200 ELSE
        IF IsSubstring(<<"m", "i", "l", "k">>, q) THEN 60 ELSE
        IF IsSubstring(<<"b", "r", "e", "a", "d">>, q) THEN 40 ELSE
        5000 + randint

\* base * (low + random.random() * spread), low and spread in hundredths
Scaled(base, low, spread, draw) ==
    LET hundredths == base * (low + (draw * spread) \div 100)
        rest == hundredths % 100
    IN  Num(hundredths \div 100, StripTrailingZeros(<<rest \div 10, rest % 10>>))

\* a product of the service: its id is f"{site}-{number}", or
\* f"{site}-fallback-{number}" for a generated product
ServiceProduct(site, fallback, number, title, price, platform) ==
    [id |-> [site |-> site, fallback |-> fallback, number |-> number],
     title |-> title, price |-> price, platform |-> platform]

\* the loop over the first 8 containers: the price of the price element, or
\* an estimate around the realistic price when there is no price element; a
\* price text that float() rejects raises and the container is skipped
RECURSIVE AmazonProducts(_, _, _, _)
AmazonProducts(containers, i, search, answer) ==
    IF containers = <<>> THEN <<>>
    ELSE LET container == Head(containers)
             title == IF container.title.found THEN Strip(container.title.text)
                      ELSE search \o <<" ", "-", " ", "A", "m", "a", "z", "o", "n", " ", "P", "r", "o", "d", "u", "c", "t", " ">> \o IntToText(i + 1)
             parsed == ParseFloat(ReSubNonPrice(container.price.text))
             price == IF container.price.found THEN parsed.value
                      ELSE Scaled(get_realistic_price(search, answer.randint), 90, 20,
                                  answer.draws[i + 1])
         IN  (IF container.price.found /\ ~parsed.ok THEN <<>>
              ELSE <<ServiceProduct("amazon", FALSE, i + 1, Prefix(title, SERVICE_TITLE_MAX), price,
                             "Amazon India")>>)
             \o AmazonProducts(Tail(containers), i + 1, search, answer)

fallback_titles ==
    <<<<"L", "a", "t", "e", "s", "t", " ", "M", "o", "d", "e", "l">>,
      <<"P", "r", "e", "m", "i", "u", "m", " ", "E", "d", "i", "t", "i", "o", "n">>,
      <<"B", "e", "s", "t", " ", "S", "e", "l", "l", "e", "r">>,
      <<"T", "o", "p", " ", "R", "a", "t", "e", "d">>>>

\* _generate_fallback_products("Amazon India", query): 4 products numbered 3
\* to 6 priced around the realistic price
generate_fallback_products(search, answer) ==
    LET base_price == get_realistic_price(search, answer.randint)
    IN  [k \in 1..4 |->
            ServiceProduct("amazon-india", TRUE, k + 2,
                    search \o <<" ", "-", " ">> \o fallback_titles[k],
                    Scaled(base_price, 80, 40, answer.draws[k]), "Amazon India")]

scrape_amazon(search, answer) ==
    IF answer.raised THEN generate_fallback_products(search, answer)
    ELSE IF answer.status # 200 THEN <<>>
    ELSE AmazonProducts(Prefix(answer.containers, 8), 0, search, answer)

\* random.random() in hundredths, and random.randint(0, 15000)
Draws == {0, 99}
RandInts == {0, 15000}

ScrapeAmazon ==
    /\ entry = "scrape_amazon"
    /\ routine_result = NotCalled
    /\ routine_result' = Returned(scrape_amazon(routine_query, upstream))
    /\ UNCHANGED <<routine_query, upstream, entry, appVars, scraperVars, priceVars, categoryVars,
                   repeatVars>>

(***************************************************************************)
(* extract_with_multiple_selectors, src/app.py:288-306, applied to what    *)
(* container.select_one gives for each selector: an element, None, or an   *)
(* exception.                                                              *)
(***************************************************************************)
Elem(id) == [kind |-> "elem", id |-> id]
PyNoneElem == [kind |-> "none", id |-> 0]
SelectorRaises == [kind |-> "raises", id |-> 0]
\* an exception that leaves the function
Propagated == [kind |-> "raised", id |-> 0]

SelectOneOutcomes == {Elem(1), Elem(2), PyNoneElem, SelectorRaises}

\* the selectors argument: None, a list of n selectors, or one selector
SelectorsArg(kind, n) == [kind |-> kind, n |-> n]

\* the loop over a list: the first element found; None and exceptions go on
RECURSIVE FirstElemFrom(_, _)
FirstElemFrom(finds, j) ==
    IF j > Len(finds) THEN PyNoneElem
    ELSE IF finds[j].kind = "elem" THEN finds[j]
    ELSE FirstElemFrom(finds, j + 1)

\* a variant without the try around select_one: an exception of a selector
\* leaves the function
RECURSIVE FirstElemUnguarded(_, _)
FirstElemUnguarded(finds, j) ==
    IF j > Len(finds) THEN PyNoneElem
    ELSE IF finds[j].kind = "elem" THEN finds[j]
    ELSE IF finds[j].kind = "raises" THEN Propagated
    ELSE FirstElemUnguarded(finds, j + 1)

extract_with_multiple_selectors_unguarded(selectors, finds) ==
    IF selectors.kind = "none" \/ selectors.n = 0 THEN PyNoneElem
    ELSE FirstElemUnguarded(finds, 1)

extract_with_multiple_selectors(selectors, finds) ==
    IF selectors.kind = "none" \/ selectors.n = 0 THEN PyNoneElem
    ELSE IF selectors.kind = "list" THEN FirstElemFrom(finds, 1)
    ELSE IF finds[1].kind = "elem" THEN finds[1]
    ELSE PyNoneElem

ReturnedElem(elem) == [called |-> TRUE, listings |-> <<>>, elem |-> elem]

\* the arguments: a selectors value and what each of its selectors gives
SelectorCalls ==
    {[selectors |-> SelectorsArg("none", 0), finds |-> <<>>]}
    \cup {[selectors |-> SelectorsArg("list", Len(fs)), finds |-> fs] :
             fs \in SeqsUpTo(SelectOneOutcomes, MaxSelectors)}
    \cup {[selectors |-> SelectorsArg("str", 1), finds |-> <<f>>] : f \in SelectOneOutcomes}

ExtractWithSelectors ==
    /\ entry = "extract_with_multiple_selectors"
    /\ routine_result = NotCalled
    /\ routine_result' =
          ReturnedElem(extract_with_multiple_selectors(upstream.selectors, upstream.finds))
    /\ UNCHANGED <<routine_query, upstream, entry, appVars, scraperVars, priceVars, categoryVars,
                   repeatVars>>

(***************************************************************************)
(* Two /scrape/prices requests with the same body, served one after the     *)
(* other by one process, each platform's site answering the same both       *)
(* times.                                                                   *)
(***************************************************************************)
NoMocks == <<>>

Mock(outcome, page) == [outcome |-> outcome, page |-> page]

\* the answers a platform's site can be fixed to
MocksOf(platform_key) ==
    CASE platform_key = "amazon" ->
           {Mock("timeout", EmptyBody), Mock("http_503", ShortPage),
            Mock("http_200", HtmlPage(<<Dear>>)), Mock("http_200", HtmlPage(<<Dear, Cheap>>))}
      [] platform_key = "flipkart" ->
           {Mock("exception", EmptyBody), Mock("http_200", HtmlPage(<<LongTitle>>))}
      [] platform_key = "myntra" ->
           {Mock("connection_error", EmptyBody), Mock("http_200", JsonPage(<<GoodPdp>>)),
            Mock("http_200", JsonPage(<<NullPricePdp, GoodPdp>>))}
      [] platform_key = "bigbasket" ->
           {Mock("http_200", EmptyBody), Mock("http_200", HtmlPage(<<Cheap>>))}
      [] platform_key = "croma" -> {Mock("http_200", HtmlPage(<<Dear>>))}
      [] OTHER -> {Mock("timeout", EmptyBody)}

\* one answer for every platform
Mocks ==
    {[k \in PlatformKeys |->
         CASE k = "amazon" -> a
           [] k = "flipkart" -> f
           [] k = "myntra" -> m
           [] k = "bigbasket" -> b
           [] OTHER -> CHOOSE only \in MocksOf(k) : TRUE] :
        a \in MocksOf("amazon"), f \in MocksOf("flipkart"), m \in MocksOf("myntra"),
        b \in MocksOf("bigbasket")}

\* a variant in which the list of results outlives the request
KeptResults == all_results

\* "all_results = []": every request starts with an empty list
FreshResults == <<>>

\* the first request of the process
FirstRequest(body) ==
    /\ round = 1
    /\ ReceiveRequest(body)

\* the site of the platform answers what it is fixed to answer
MockedFetch ==
    /\ InLoop
    /\ phase = "fetch"
    /\ platforms[idx] \in PlatformKeys
    /\ FetchAndParse(mocked[platforms[idx]].outcome, mocked[platforms[idx]].page)

\* list(set(...)) lists the same strings, added in the same order, in the
\* same order every time within one process
SameSetOrder(products, listed) ==
    (round = 2 /\ first_response.status = 200
     /\ [i \in 1..Len(products) |-> products[i].platform]
           = [i \in 1..Len(first_response.products) |-> first_response.products[i].platform])
        => listed = first_response.platforms_with_results

RepeatRespond ==
    /\ Respond
    /\ SameSetOrder(all_results', response'.platforms_with_results)

\* the first request is answered and the same body is posted again: the
\* handler starts over with fresh locals
SecondRequest ==
    /\ entry = "app"
    /\ round = 1
    /\ pc = "done"
    /\ round' = 2
    /\ first_response' = response
    /\ pc' = "idle"
    /\ product_name' = <<>>
    /\ custom_platforms' = <<>>
    /\ category' = ""
    /\ platforms' = <<>>
    /\ idx' = 1
    /\ phase' = "start"
    /\ delay' = 0
    /\ all_results' = FreshResults
    /\ returned' = <<>>
    /\ outcomes' = <<>>
    /\ rate_limited' = 0
    /\ fetches' = 0
    /\ response' = NoResponse
    /\ calls' = <<>>
    /\ UNCHANGED <<request, SCRAPER_API_KEY, PLATFORM_CONFIGS, mocked>>
    /\ UNCHANGED <<entry, scraperVars, priceVars, categoryVars, routineVars>>

\* the second request arrives
RepeatRequest ==
    /\ round = 2
    /\ request # NoRequest
    /\ ReceiveRequest(request)

(***************************************************************************)
(* Specifications.                                                         *)
(***************************************************************************)
AppIdle ==
    /\ pc = "idle"
    /\ request = NoRequest
    /\ product_name = <<>>
    /\ custom_platforms = <<>>
    /\ category = ""
    /\ platforms = <<>>
    /\ idx = 1
    /\ phase = "start"
    /\ delay = 0
    /\ all_results = <<>>
    /\ returned = <<>>
    /\ outcomes = <<>>
    /\ rate_limited = 0
    /\ fetches = 0
    /\ response = NoResponse
    /\ calls = <<>>

ScraperIdle ==
    /\ s_pc = "tasks"
    /\ s_idx = 1
    /\ running = 0
    /\ all_products = <<>>
    /\ errors = <<>>
    /\ task_results = <<>>
    /\ s_result = NoResult

PriceIdle == price_text = <<>> /\ price_result = NotRun

CategoryIdle == query = <<>> /\ query_words = <<>> /\ category_result = ""

RoutineIdle == routine_query = <<>> /\ upstream = NoUpstream /\ routine_result = NotCalled

RepeatIdle == round = 1 /\ first_response = NoResponse /\ mocked = NoMocks

\* one request to the service of app.py, or one call of scraper.py
Init ==
    /\ entry \in {"app", "scraper"}
    /\ CRAWL4AI_AVAILABLE \in (IF entry = "scraper" THEN BOOLEAN ELSE {FALSE})
    /\ SCRAPER_API_KEY \in (IF entry = "app" THEN BOOLEAN ELSE {FALSE})
    /\ PLATFORM_CONFIGS = STARTUP_CONFIGS
    /\ AppIdle
    /\ ScraperIdle
    /\ PriceIdle
    /\ CategoryIdle
    /\ RoutineIdle
    /\ RepeatIdle

Next ==
    \/ \E body \in RequestBodies : ReceiveRequest(body)
    \/ ReceiveQuery
    \/ SkipUnknownPlatform
    \/ ApplyRateLimiting
    \/ Fetch
    \/ Respond
    \/ \E j \in 1..Len(Tasks) : AwaitTask(j)
    \/ TaskReturns
    \/ TaskRaises
    \/ ScraperReturns

Spec == Init /\ [][Next]_vars

\* clean_price applied to one text
InitPrice ==
    /\ entry = "clean_price"
    /\ CRAWL4AI_AVAILABLE = FALSE
    /\ SCRAPER_API_KEY = FALSE
    /\ PLATFORM_CONFIGS = STARTUP_CONFIGS
    /\ AppIdle
    /\ ScraperIdle
    /\ price_text \in PriceTexts
    /\ price_result = NotRun
    /\ CategoryIdle
    /\ RoutineIdle
    /\ RepeatIdle

NextPrice == CleanPrice

SpecPrice == InitPrice /\ [][NextPrice]_vars

\* detect_product_category applied to one query
InitCategory ==
    /\ entry = "detect_product_category"
    /\ CRAWL4AI_AVAILABLE = FALSE
    /\ SCRAPER_API_KEY = FALSE
    /\ PLATFORM_CONFIGS = STARTUP_CONFIGS
    /\ AppIdle
    /\ ScraperIdle
    /\ PriceIdle
    /\ query_words \in SeqsUpTo(Vocabulary, MaxWords)
    /\ \E spaced \in BOOLEAN : query = WriteQuery(query_words, spaced)
    /\ category_result = ""
    /\ RoutineIdle
    /\ RepeatIdle

NextCategory == DetectCategory

SpecCategory == InitCategory /\ [][NextCategory]_vars

\* one scraping routine applied to one answer of its sites
InitRoutine ==
    /\ entry \in {"scrape_platform", "scrape_prices", "scrape_amazon",
                  "extract_with_multiple_selectors"}
    /\ CRAWL4AI_AVAILABLE = FALSE
    /\ SCRAPER_API_KEY = FALSE
    /\ PLATFORM_CONFIGS = STARTUP_CONFIGS
    /\ AppIdle
    /\ ScraperIdle
    /\ PriceIdle
    /\ CategoryIdle
    /\ RepeatIdle
    /\ routine_query \in RoutineQueries
    /\ routine_result = NotCalled
    /\ upstream \in
          CASE entry = "scrape_platform" ->
                 {[platform_key |-> k, outcome |-> o, page |-> LayeredPage(cs, os)] :
                     k \in {"amazon", "flipkart", "bigbasket"},
                     o \in {"http_200", "http_503"},
                     cs \in SeqsUpTo(TitledContainers, MaxContainers + 1)
                            \cup {ElevenContainers, AroundRaising},
                     os \in OtherMatches}
                 \cup (IF routine_query = <<"m", "i", "l", "k">>
                       THEN {[platform_key |-> k, outcome |-> "http_200", page |-> HtmlPage(cs)] :
                                k \in {"amazon", "flipkart", "bigbasket", "blinkit"},
                                cs \in SeqsUpTo(LinkedContainers, MaxContainers)}
                       ELSE {})
            [] entry = "scrape_prices" ->
                 [amazon : FewAnswers, flipkart : FewAnswers, croma : ServiceAnswers,
                  snapdeal : FewAnswers]
            [] entry = "extract_with_multiple_selectors" -> SelectorCalls
            [] entry = "scrape_amazon" ->
                 {[raised |-> r, status |-> st, containers |-> cs, draws |-> ds, randint |-> n] :
                     r \in BOOLEAN, st \in {200, 503},
                     cs \in SeqsUpTo(ServiceItems, MaxContainers + 1),
                     ds \in [1..4 -> Draws], n \in RandInts}

NextRoutine == ParsePage \/ ScrapePrices \/ ScrapeAmazon \/ ExtractWithSelectors

SpecRoutine == InitRoutine /\ [][NextRoutine]_vars

\* the same request twice, the sites answering the same both times
InitRepeat ==
    /\ entry \in {"app"}
    /\ CRAWL4AI_AVAILABLE = FALSE
    /\ SCRAPER_API_KEY = FALSE
    /\ PLATFORM_CONFIGS = STARTUP_CONFIGS
    /\ AppIdle
    /\ ScraperIdle
    /\ PriceIdle
    /\ CategoryIdle
    /\ RoutineIdle
    /\ round = 1
    /\ first_response = NoResponse
    /\ mocked \in Mocks

NextRepeat ==
    \/ \E body \in RequestBodies : FirstRequest(body)
    \/ SkipUnknownPlatform
    \/ ApplyRateLimiting
    \/ MockedFetch
    \/ RepeatRespond
    \/ SecondRequest
    \/ RepeatRequest

SpecRepeat == InitRepeat /\ [][NextRepeat]_vars

(***************************************************************************)
(* Properties.                                                             *)
(***************************************************************************)
AppDone == entry = "app" /\ pc = "done"
Answered200 == AppDone /\ response.status = 200

Prices(listings) == [i \in 1..Len(listings) |-> listings[i].price]

Count(s, x) == Cardinality({i \in 1..Len(s) : s[i] = x})
IsPermutation(a, b) ==
    /\ Len(a) = Len(b)
    /\ \A x \in Range(a) \cup Range(b) : Count(a, x) = Count(b, x)

\* no element is priced below an earlier one
NonDecreasing(listings) ==
    \A i, j \in 1..Len(listings) : i < j => ~PyLess(listings[j].price, listings[i].price)

WellFormedListing(l) ==
    /\ l.title >= 1
    /\ l.title <= TITLE_MAX
    /\ l.price.kind = "num"
    /\ NumLess(Zero, l.price)
    /\ NumLess(l.price, Num(PRICE_CEILING, <<>>))

\* C1: every listing returned by scrape_platform has a non-empty title of at
\* most 200 characters and a price p with 0 < p < 10,000,000, the listings of
\* the Myntra embedded-JSON path included.
C1_ListingsWellFormed ==
    \A i \in 1..Len(returned) : \A j \in 1..Len(returned[i]) :
        WellFormedListing(returned[i][j])

\* C2: in every 200 response products is in non-decreasing order of price and
\* is a permutation of the concatenation of the listings each searched
\* platform returned; results [120.0, 95.0] and [200.0] give [95.0, 120.0, 200.0].
C2_SortedPermutation ==
    Answered200 =>
        /\ NonDecreasing(response.products)
        /\ IsPermutation(response.products, Concat(returned))
        /\ (Len(returned) = 2
            /\ Prices(returned[1]) = <<Num(120, <<>>), Num(95, <<>>)>>
            /\ Prices(returned[2]) = <<Num(200, <<>>)>>)
           => Prices(response.products) = <<Num(95, <<>>), Num(120, <<>>), Num(200, <<>>)>>

C2_Witness ==
    /\ Answered200
    /\ Len(returned) = 2
    /\ Prices(returned[1]) = <<Num(120, <<>>), Num(95, <<>>)>>
    /\ Prices(returned[2]) = <<Num(200, <<>>)>>

ScraperDone == entry = "scraper" /\ s_pc = "done"

\* C3: when the merged list is non-empty the listing reported as cheapest is
\* the one at index 0 of the sorted list and no listing is priced strictly
\* lower; in scraper.py is_cheapest is set on that listing and on no other.
C3_CheapestIsFirst ==
    /\ (Answered200 /\ response.products # <<>>) =>
          /\ response.cheapest = <<response.products[1]>>
          /\ \A i \in 1..Len(response.products) :
                ~PyLess(response.products[i].price, response.cheapest[1].price)
    /\ (ScraperDone /\ s_result.products # <<>>) =>
          /\ s_result.cheapest = <<s_result.products[1]>>
          /\ \A i \in 1..Len(s_result.products) :
                /\ ~NumLess(s_result.products[i].price, s_result.cheapest[1].price)
                /\ s_result.products[i].is_cheapest <=> (i = 1)

\* two products tie for the lowest price
C3_Witness ==
    /\ ScraperDone
    /\ Len(s_result.products) >= 3
    /\ s_result.products[1].price = s_result.products[2].price
    /\ s_result.products[1].is_cheapest

EveryPlatformEmpty ==
    /\ platforms # <<>>
    /\ Len(returned) = Len(platforms)
    /\ \A i \in 1..Len(returned) : returned[i] = <<>>

\* C4: when every searched platform yields zero listings the answer is 200
\* with products = [], cheapest = null and total_results = 0; in every 200
\* response success is true exactly when total_results > 0, and
\* total_results is the length of products.
C4_EmptyIsSuccess ==
    /\ (AppDone /\ EveryPlatformEmpty) =>
          /\ response.status = 200
          /\ response.products = <<>>
          /\ response.cheapest = <<>>
          /\ response.total_results = 0
    /\ Answered200 =>
          /\ response.success <=> (response.total_results > 0)
          /\ response.total_results = Len(response.products)

C4_Witness ==
    /\ AppDone
    /\ EveryPlatformEmpty
    /\ Len(platforms) = MAX_PLATFORMS
    /\ response.status = 200
    /\ ~response.success

\* the body has no product_name, or one that is empty or only blanks
NameMissingOrBlank(body) ==
    \/ body.name = "missing"
    \/ body.name = "text" /\ \A i \in 1..Len(body.text) : body.text[i] = " "

\* C5: a request whose body has no product_name, or an empty or
\* whitespace-only one, is answered 400 with an error message, and no
\* platform is rate-limited, fetched or parsed for it.
C5_BlankNameIs400 ==
    (entry = "app" /\ pc # "idle" /\ NameMissingOrBlank(request)) =>
        /\ pc = "done"
        /\ response.status = 400
        /\ response.error # ""
        /\ ~response.success
        /\ rate_limited = 0
        /\ fetches = 0
        /\ returned = <<>>
        /\ outcomes = <<>>

C5_Witness ==
    /\ AppDone
    /\ request.name = "text"
    /\ request.text = <<" ", " ">>
    /\ request.platforms # <<>>
    /\ response.status = 400

FailedOutcomes == {"http_503", "timeout", "connection_error", "exception"}

\* C6: a platform whose fetch or parse raises, times out or answers a
\* non-200 status contributes zero listings, and every other platform of the
\* list is still scraped and its listings are still returned, wherever the
\* failing platform stands in the list.
C6_FailureIsolated ==
    /\ entry = "app" =>
          /\ \A i \in 1..Len(outcomes) : outcomes[i] \in FailedOutcomes => returned[i] = <<>>
          /\ Len(returned) = Len(outcomes)
          /\ pc = "scraping" => /\ Len(returned) = idx - 1
                                /\ all_results = Concat(returned)
          /\ Answered200 => /\ Len(returned) = Len(platforms)
                            /\ IsPermutation(response.products, Concat(returned))
    /\ entry = "scraper" =>
          /\ Len(task_results) = s_idx - 1
          /\ all_products = Concat(task_results)
          /\ \A i \in 1..Len(task_results) :
                Tasks[i] \in Range(errors) => task_results[i] = <<>>
          /\ ScraperDone =>
                /\ Len(task_results) = Len(Tasks)
                /\ s_result.errors = errors
                /\ IsPermutation(Prices(s_result.products),
                                 Prices(SelectSeq(Concat(task_results), HasPositivePrice)))

\* the first platform fails, the second one's listings are answered
C6_Witness ==
    /\ Answered200
    /\ Len(outcomes) >= 2
    /\ outcomes[1] = "timeout"
    /\ returned[2] # <<>>
    /\ response.products = returned[2]

\* C7: for every request with a non-empty product_name, whatever the
\* platforms return, the response status is 200.
C7_UpstreamNeverFailsRequest ==
    (AppDone /\ product_name # <<>>) => response.status = 200

NoDuplicates(s) == \A i, j \in 1..Len(s) : i # j => s[i] # s[j]

\* the display names of the platforms whose scrape returned a listing
ContributorNames ==
    {PLATFORM_CONFIGS[platforms[i]].name :
        i \in {k \in 1..Len(returned) : returned[k] # <<>>}}

C8_Common ==
    /\ response.platforms_searched = platforms
    /\ Len(outcomes) = Len(response.platforms_searched)
    /\ Range(response.platforms_with_results) = ContributorNames
    /\ NoDuplicates(response.platforms_with_results)

\* C8 as stated: every entry of platforms_with_results is an entry of
\* platforms_searched.
C8_Original ==
    Answered200 =>
        /\ C8_Common
        /\ \A p \in Range(response.platforms_with_results) :
              p \in Range(response.platforms_searched)

\* C8: every 200 response carries platforms_searched, the platform keys that
\* were attempted, and platforms_with_results, which holds exactly the
\* display names of the platforms that contributed a listing, each once;
\* every entry of platforms_with_results is the display name of a key of
\* platforms_searched.
C8_PlatformsReported ==
    Answered200 =>
        /\ C8_Common
        /\ \A p \in Range(response.platforms_with_results) :
              \E k \in Range(response.platforms_searched) \cap PlatformKeys :
                  PLATFORM_CONFIGS[k].name = p

C8_Witness ==
    /\ Answered200
    /\ Len(platforms) = MAX_PLATFORMS
    /\ Len(response.platforms_with_results) = 2
    /\ returned[2] = <<>>

(***************************************************************************)
(* clean_price against the decimal notation of its argument.               *)
(***************************************************************************)
RECURSIVE DigitsAndPoints(_)
DigitsAndPoints(text) ==
    IF text = <<>> THEN <<>>
    ELSE (IF Head(text) \in Range(Digits) \cup {"."} THEN <<Head(text)>> ELSE <<>>)
         \o DigitsAndPoints(Tail(text))

RECURSIVE DropLeadingZeros(_)
DropLeadingZeros(s) == IF s # <<>> /\ Head(s) = "0" THEN DropLeadingZeros(Tail(s)) ELSE s

RECURSIVE DropTrailingZeros(_)
DropTrailingZeros(s) ==
    IF s # <<>> /\ s[Len(s)] = "0" THEN DropTrailingZeros(SubSeq(s, 1, Len(s) - 1)) ELSE s

IntegerPart(s) ==
    IF \E i \in 1..Len(s) : s[i] = "."
    THEN SubSeq(s, 1, (CHOOSE i \in 1..Len(s) : s[i] = ".") - 1)
    ELSE s

FractionPart(s) ==
    IF \E i \in 1..Len(s) : s[i] = "."
    THEN SubSeq(s, (CHOOSE i \in 1..Len(s) : s[i] = ".") + 1, Len(s))
    ELSE <<>>

\* digits with at most one point among them
IsDecimal(s) ==
    /\ Cardinality({i \in 1..Len(s) : s[i] = "."}) <= 1
    /\ \E i \in 1..Len(s) : s[i] # "."

\* the shortest notation of the number s writes: "00012.50" is "12.5"
Shortest(s) ==
    LET ip == DropLeadingZeros(IntegerPart(s))
        fp == DropTrailingZeros(FractionPart(s))
    IN  (IF ip = <<>> THEN <<"0">> ELSE ip) \o (IF fp = <<>> THEN <<>> ELSE <<".">> \o fp)

\* the shortest notation of a number
NumToText(v) ==
    IntToText(v.int)
    \o (IF v.frac = <<>> THEN <<>>
        ELSE <<".">> \o [i \in 1..Len(v.frac) |-> Digits[v.frac[i] + 1]])

\* 0 < the number s writes < 10,000,000
WritesValidPrice(s) ==
    /\ IsDecimal(s)
    /\ \E i \in 1..Len(s) : s[i] \notin {"0", "."}
    /\ Len(DropLeadingZeros(IntegerPart(s))) <= 7

\* C9: clean_price never raises; it removes every character that is not a
\* digit or a decimal point and returns the resulting number when it parses
\* and lies strictly between 0 and 10,000,000, and the sentinel 0 otherwise;
\* "R1,23,456.00" gives 123456.0, "" and "free" give the sentinel.
C9_CleanPrice ==
    (entry = "clean_price" /\ price_result # NotRun) =>
        /\ price_result.kind = "num"
        /\ IF WritesValidPrice(DigitsAndPoints(price_text))
           THEN NumToText(price_result) = Shortest(DigitsAndPoints(price_text))
           ELSE price_result = Zero
        /\ price_text = RupeeLakh => price_result = Num(123456, <<>>)
        /\ price_text \in {<<>>, Free} => price_result = Zero

C9_Witness ==
    /\ entry = "clean_price"
    /\ price_text = RupeeLakh
    /\ price_result = Num(123456, <<>>)

(***************************************************************************)
(* detect_product_category against the words the query was written with.   *)
(***************************************************************************)
\* the words of the query that are not remove_words, lower-cased
MeaningfulWords == {Lower(query_words[i]) : i \in 1..Len(query_words)} \ Range(remove_words)

\* some keyword of the list occurs in a meaningful word
Mentions(keywords) ==
    \E wd \in MeaningfulWords : \E k \in 1..Len(keywords) : IsSubstring(keywords[k], wd)

RECURSIVE ScoreFrom(_, _, _)
ScoreFrom(keywords, tokens, cleaned_query) ==
    IF keywords = <<>> THEN 0
    ELSE (IF Head(keywords) \in tokens THEN 10
          ELSE IF IsSubstring(Head(keywords), cleaned_query) THEN 5
          ELSE 0)
         + ScoreFrom(Tail(keywords), tokens, cleaned_query)

\* 10 for a keyword that is a whole token, 5 for one that is only a substring
Score(keywords) ==
    ScoreFrom(keywords, Range(CleanedWords(query)), Join(CleanedWords(query), <<" ">>))

\* the category of the highest nonzero score, ties by fashion > electronics > grocery
HighestScore ==
    LET f == Score(fashion_keywords)
        e == Score(electronics_keywords)
        g == Score(grocery_keywords)
    IN  IF f = 0 /\ e = 0 /\ g = 0 THEN "general"
        ELSE IF f >= e /\ f >= g THEN "fashion"
        ELSE IF e >= g THEN "electronics"
        ELSE "grocery"

Detected == entry = "detect_product_category" /\ category_result # ""

\* C10 as stated: the category with the highest keyword score is returned.
C10_Original == Detected => category_result = HighestScore

\* C10: detect_product_category returns the first category, in the order
\* fashion, electronics, grocery, one of whose keywords occurs as a substring
\* of the stop-word-stripped query, whatever the other categories' keywords
\* in the query; when no keyword occurs (including the empty query) the
\* result is general.
C10_FirstCategoryMentioned ==
    Detected =>
        category_result =
            IF Mentions(fashion_keywords) THEN "fashion"
            ELSE IF Mentions(electronics_keywords) THEN "electronics"
            ELSE IF Mentions(grocery_keywords) THEN "grocery"
            ELSE "general"

\* "iphone shoe": electronics scores 15, fashion 10, and fashion is returned
C10_Witness ==
    /\ Detected
    /\ query_words = <<<<"i", "p", "h", "o", "n", "e">>, <<"s", "h", "o", "e">>>>
    /\ Score(electronics_keywords) > Score(fashion_keywords)
    /\ category_result = "fashion"

(***************************************************************************)
(* Platform selection.                                                     *)
(***************************************************************************)
\* the request went past validation: its platforms were resolved
Resolved == entry = "app" /\ pc # "idle" /\ category # ""

IsConfigured(platform_key) == platform_key \in PlatformKeys

\* C12: a supplied platforms list that is non-empty once its unknown keys
\* are removed is the source of the platforms searched; a supplied list that
\* is empty, or that holds unknown keys only, gives way to the platforms the
\* classifier selects for the query.
C12_OverrideOrClassifier ==
    Resolved =>
        IF SelectSeq(custom_platforms, IsConfigured) # <<>>
        THEN Range(platforms) \subseteq Range(custom_platforms)
        ELSE platforms = Prefix(get_relevant_platforms(product_name), MAX_PLATFORMS)

\* C13: a platform key that is not in PLATFORM_CONFIGS is skipped, without a
\* rate-limit delay and without an HTTP request, and the request completes
\* with status 200 carrying the listings of the other requested platforms.
C13_UnknownKeySkipped ==
    /\ entry = "app" =>
          \A i \in 1..Len(outcomes) :
              ~IsConfigured(platforms[i]) => returned[i] = <<>> /\ outcomes[i] = "unknown"
    /\ (AppDone /\ category # "") =>
          /\ rate_limited = Len(SelectSeq(platforms, IsConfigured))
          /\ fetches = Len(SelectSeq(platforms, IsConfigured))
    /\ (AppDone /\ category # "" /\ \E i \in 1..Len(platforms) : ~IsConfigured(platforms[i])) =>
          /\ response.status = 200
          /\ IsPermutation(response.products, Concat(returned))

(***************************************************************************)
(* The fetch of one platform.                                              *)
(***************************************************************************)
RaisedOutcomes == {"timeout", "connection_error", "exception"}

\* C14: the fetch of a platform tries its strategies in a fixed order and
\* falls back: when the proxy-service request raises, the next strategy,
\* down to the direct HTTP fetch, is attempted; the strategy that succeeds
\* is the last one invoked; the fetch fails only when all strategies failed.
C14_FetchFallsBack ==
    entry = "app" =>
        \A i \in 1..Len(calls) :
            calls[i].requests # <<>> =>
                /\ calls[i].requests \in {<<"scraperapi">>, <<"direct">>, <<"scraperapi", "direct">>}
                /\ outcomes[i] \in RaisedOutcomes =>
                      calls[i].requests[Len(calls[i].requests)] = "direct"

\* C15: a fetched response goes to the parser only if its status is 200 and
\* its body is longer than 1000 bytes; a 200 response with an empty or
\* shorter body is never parsed.
C15_ShortBodyNotParsed ==
    entry = "app" =>
        \A i \in 1..Len(calls) :
            /\ calls[i].parsed => calls[i].status = 200 /\ calls[i].size > 1000
            /\ (calls[i].status = 200 /\ calls[i].size <= 1000) => returned[i] = <<>>

\* the configured platforms among the first n of the list
ConfiguredAmong(n) == {i \in 1..Min(n, Len(platforms)) : IsConfigured(platforms[i])}

\* C20: every scrape_platform invocation for a configured platform applies
\* exactly one rate-limit delay, of a duration within the platform's
\* (min, max) range, and the delay is over before the platform's HTTP
\* request is issued; no HTTP request is issued without that delay.
C20_OneDelayBeforeEachRequest ==
    entry = "app" =>
        /\ fetches = Cardinality(ConfiguredAmong(idx - 1))
        /\ fetches = Cardinality({i \in 1..Len(calls) : calls[i].requests # <<>>})
        /\ rate_limited = fetches + (IF phase = "fetch" THEN 1 ELSE 0)
        /\ phase = "start" => delay = 0
        /\ phase = "fetch" =>
              /\ pc = "scraping"
              /\ IsConfigured(platforms[idx])
              /\ get_platform_delay(platforms[idx])[1] <= delay
              /\ delay <= get_platform_delay(platforms[idx])[2]

\* the third platform, amazon, has slept the longest its range allows and
\* waits for its request
C20_Witness ==
    /\ entry = "app"
    /\ phase = "fetch"
    /\ idx = MAX_PLATFORMS
    /\ platforms[idx] = "amazon"
    /\ platforms[1] = "myntra"
    /\ delay = 8
    /\ rate_limited = 3
    /\ fetches = 2

(***************************************************************************)
(* POST /query/price/ against POST /scrape/prices.                         *)
(***************************************************************************)
AtQueryPrice == entry = "app" /\ pc # "idle" /\ request.name = "query"

\* the words the posted query was written with
WordsOfQuery ==
    CHOOSE ws \in QueryWordLists : \E spaced \in BOOLEAN : WriteQuery(ws, spaced) = request.text

StopWords ==
    { <<"f", "i", "n", "d">>, <<"s", "e", "a", "r", "c", "h">>, <<"p", "r", "i", "c", "e">>,
      <<"p", "r", "i", "c", "e", "s">>, <<"c", "o", "s", "t">>, <<"c", "h", "e", "a", "p">>,
      <<"c", "h", "e", "a", "p", "e", "s", "t">>, <<"f", "o", "r">>, <<"o", "f">> }

IsNotStopWord(wd) == wd \notin StopWords

\* the lower-cased words of the query without the stop words
Remaining ==
    SelectSeq([i \in 1..Len(WordsOfQuery) |-> Lower(WordsOfQuery[i])], IsNotStopWord)

\* what /scrape/prices answers once the platforms have returned `returned`
IsScrapeAnswer(r) ==
    IF SortRaises(Concat(returned)) THEN r = ErrorResponse(500, "TypeError")
    ELSE \E with_results \in OrdersOf(PlatformsWithResults(Concat(returned))) :
            r = SuccessResponse(SortByPrice(Concat(returned)), with_results)

\* C18: for every body {query: q}, /query/price/ answers 400 when nothing
\* remains of q after removing the stop words, and otherwise answers what
\* /scrape/prices answers for product_name equal to the lower-cased q with
\* the stop words removed: same status, products, category and platforms.
C18_QueryDelegates ==
    AtQueryPrice =>
        IF Remaining = <<>>
        THEN /\ pc = "done"
             /\ response.status = 400
             /\ rate_limited = 0
             /\ fetches = 0
             /\ calls = <<>>
        ELSE /\ product_name = Join(Remaining, <<" ">>)
             /\ custom_platforms = <<>>
             /\ category = detect_product_category(Join(Remaining, <<" ">>))
             /\ platforms = Prefix(get_relevant_platforms(Join(Remaining, <<" ">>)), MAX_PLATFORMS)
             /\ pc = "done" => IsScrapeAnswer(response)

\* " Find  Milk  price " is answered as product_name "milk" is
C18_Witness ==
    /\ AtQueryPrice
    /\ pc = "done"
    /\ request.text = WriteQuery(<<<<"F", "i", "n", "d">>, <<"M", "i", "l", "k">>,
                                   <<"p", "r", "i", "c", "e">>>>, TRUE)
    /\ product_name = <<"m", "i", "l", "k">>
    /\ response.status = 200
    /\ response.category = "grocery"
    /\ response.total_results = 2

(***************************************************************************)
(* The relevance of a title to the query.                                  *)
(***************************************************************************)
\* the tokens of the lower-cased query that are not stop words and have 3
\* characters or more
QueryTokens(q) ==
    SelectSeq(Split(Lower(q)), LAMBDA wd : Len(wd) >= 3 /\ wd \notin StopWords)

\* the number of the tokens that occur in the title
MatchCount(tokens, title) ==
    Cardinality({i \in 1..Len(tokens) : IsSubstring(tokens[i], Lower(title))})

\* the characters two texts have in common, counted with multiplicity: no
\* alignment of the two texts matches more characters than this
CommonCharacters(a, b) ==
    LET Occurrences(t, c) == Cardinality({i \in 1..Len(t) : t[i] = c})
        Shared(c) == Min(Occurrences(a, c), Occurrences(b, c))
        RECURSIVE Sum(_)
        Sum(cs) == IF cs = {} THEN 0
                   ELSE LET c == CHOOSE x \in cs : TRUE IN Shared(c) + Sum(cs \ {c})
    IN  Sum(Range(a) \cap Range(b))

\* fewer than 0.6 of the query's tokens occur in the title, and the
\* similarity 2 * matches / (length of query + length of title) is below 0.4
\* however the two texts are aligned
FailsRelevanceFilter(q, title) ==
    /\ QueryTokens(q) # <<>>
    /\ 10 * MatchCount(QueryTokens(q), title) < 6 * Len(QueryTokens(q))
    /\ 10 * 2 * CommonCharacters(Lower(q), Lower(title)) < 4 * (Len(q) + Len(title))

IsRelevantContainer(c) == ~(c.title.found /\ FailsRelevanceFilter(routine_query, c.title.text))

\* C16: no listing is emitted whose title fails the relevance filter against
\* the query: the listings of a page are those of its containers whose title
\* passes the filter; for the query "milk" a container titled "Samsung Galaxy
\* S24 Ultra" with a valid price yields no listing.
C16_OnlyRelevantListings ==
    (entry = "scrape_platform" /\ routine_result.called) =>
        routine_result.listings =
            IF upstream.outcome = "http_200"
            THEN ParseContainers(
                     SelectSeq(SelectContainers(upstream.platform_key, upstream.page).containers,
                               IsRelevantContainer),
                     upstream.platform_key)
            ELSE <<>>

(***************************************************************************)
(* Listings whose price is not from the page.                              *)
(***************************************************************************)
\* the answer of the site a listing of scrape_prices names
SiteOf(listing) ==
    CASE listing.platform = "Amazon" -> upstream.amazon
      [] listing.platform = "Flipkart" -> upstream.flipkart
      [] listing.platform = "Croma" -> upstream.croma
      [] listing.platform = "Snapdeal" -> upstream.snapdeal

\* the price of the listing is the price of a price element of the page
ExtractedFromPage(listing) ==
    IF entry = "scrape_prices"
    THEN /\ ~SiteOf(listing).raised
         /\ \E i \in 1..Len(SiteOf(listing).items) :
               LET item == SiteOf(listing).items[i]
               IN  /\ item.price.found
                   /\ DigitsOnlyPrice(item.price.text).ok
                   /\ DigitsOnlyPrice(item.price.text).value = listing.price
    ELSE /\ ~upstream.raised
         /\ ~listing.id.fallback
         /\ upstream.containers[listing.id.number].price.found

\* the listing says of itself that it is synthetic: a field set aside for
\* that, or an id of the form f"{site}-fallback-{number}"
IsMarkedSynthetic(listing) ==
    \/ "synthetic" \in DOMAIN listing
    \/ "sourced" \in DOMAIN listing
    \/ ("id" \in DOMAIN listing /\ listing.id.fallback)

\* C17: a listing whose price was not extracted from the upstream page (an
\* estimated, mock or fallback price) always carries an explicit synthetic
\* marker: every listing the service routines return either has the price of
\* a price element of the page or is marked synthetic.
C17_SyntheticIsMarked ==
    (entry \in {"scrape_prices", "scrape_amazon"} /\ routine_result.called) =>
        \A i \in 1..Len(routine_result.listings) :
            \/ ExtractedFromPage(routine_result.listings[i])
            \/ IsMarkedSynthetic(routine_result.listings[i])

(***************************************************************************)
(* The same request twice.                                                 *)
(***************************************************************************)
SecondAnswered == entry = "app" /\ round = 2 /\ pc = "done"

RECURSIVE RequestsIssued(_)
RequestsIssued(cs) ==
    IF cs = <<>> THEN 0 ELSE Len(Head(cs).requests) + RequestsIssued(Tail(cs))

\* C21: every entry of the list passed to scrape_all_platforms is fetched at
\* most once per request: scrape_platform is called once per entry, in list
\* order, a call issues at most one HTTP request whether it fails, answers
\* nothing or succeeds, and the HTTP requests of a request never outnumber
\* the entries searched.
C21_OnePassPerEntry ==
    (entry = "app" /\ pc # "idle") =>
        /\ Len(calls) = Min(idx - 1, Len(platforms))
        /\ \A i \in 1..Len(calls) : Len(calls[i].requests) <= 1
        /\ RequestsIssued(calls) <= Len(platforms)
        /\ fetches = RequestsIssued(calls)

\* three entries were searched: the first fetch timed out, the second
\* answered a page without listings, and three requests were issued in all
C21_Witness ==
    /\ entry = "app"
    /\ pc = "done"
    /\ Len(platforms) = 3
    /\ outcomes[1] = "timeout"
    /\ outcomes[2] = "http_200" /\ returned[2] = <<>>
    /\ RequestsIssued(calls) = 3

(***************************************************************************)
(* The container selectors of a platform.                                  *)
(***************************************************************************)
\* the positions of the container selectors of the platform scraped
ContainerSelectors == 1..Len(PLATFORM_CONFIGS[upstream.platform_key].container.selectors)

\* the selectors that match at least one element of the page
Matching == {j \in ContainerSelectors : Found(upstream.page, j) # <<>>}

FirstMatching == CHOOSE j \in Matching : \A k \in Matching : j <= k

Parsed200 ==
    entry = "scrape_platform" /\ routine_result.called /\ upstream.outcome = "http_200"

\* C22: when the container entry of a platform is a list of selectors, the
\* containers parsed are the first 10 matches at most of the first selector,
\* in list order, that matches an element; the selectors after it are never
\* evaluated and nothing of theirs is parsed; when no selector matches, all
\* were evaluated, no container is parsed and the platform yields no listing.
C22_FirstMatchingSelectorWins ==
    (Parsed200 /\ PLATFORM_CONFIGS[upstream.platform_key].container.kind = "list") =>
        IF Matching = {}
        THEN /\ routine_result.listings = <<>>
             /\ Range(routine_result.tried) = ContainerSelectors
        ELSE /\ routine_result.tried = [j \in 1..FirstMatching |-> j]
             /\ routine_result.listings =
                   ParseContainers(Prefix(IF FirstMatching = 1 THEN upstream.page.containers
                                          ELSE upstream.page.others[FirstMatching - 1], 10),
                                   upstream.platform_key)

\* Flipkart's first two selectors find nothing, its third finds two
\* containers and its fourth one: the listings are those of the third's two
C22_Witness ==
    /\ Parsed200
    /\ upstream.platform_key = "flipkart"
    /\ upstream.page.containers = <<>>
    /\ Len(upstream.page.others) = 3
    /\ upstream.page.others[2] = <<Galaxy, AmulMilk>>
    /\ routine_result.tried = <<1, 2, 3>>
    /\ Len(routine_result.listings) = 2

(***************************************************************************)
(* The first selector that matches.                                        *)
(***************************************************************************)
ExtractReturned == entry = "extract_with_multiple_selectors" /\ routine_result.called

\* the selectors that find an element
Finding == {j \in 1..Len(upstream.finds) : upstream.finds[j].kind = "elem"}

\* C23: extract_with_multiple_selectors returns the match of the first
\* selector, in list order, that matches an element of the container, and
\* None when no selector matches or the selectors are an empty list or None;
\* a selector that raises counts as no match, the selectors after it are
\* still tried, and no exception leaves the function.
C23_FirstMatchOrNone ==
    ExtractReturned =>
        /\ routine_result.elem.kind \in {"elem", "none"}
        /\ Finding = {} => routine_result.elem = PyNoneElem
        /\ Finding # {} =>
              routine_result.elem = upstream.finds[CHOOSE j \in Finding : \A k \in Finding : j <= k]

\* the first selector raises, the second finds nothing, the third matches
C23_Witness ==
    /\ ExtractReturned
    /\ upstream.selectors.kind = "list"
    /\ Len(upstream.finds) = 3
    /\ upstream.finds[1] = SelectorRaises
    /\ upstream.finds[2] = PyNoneElem
    /\ routine_result.elem = Elem(2)

(***************************************************************************)
(* A container that raises.                                                *)
(***************************************************************************)
\* the containers the page's selection gives to the loop
Candidates == SelectContainers(upstream.platform_key, upstream.page).containers

DoesNotRaise(c) == ~Raises(c)

\* C24: an exception raised while one container is processed does not end
\* the parse: every other candidate container is still processed, and the
\* listings returned are those of the containers before and after it, in
\* page order.
C24_ContainerFailureIsolated ==
    Parsed200 =>
        routine_result.listings =
            ParseContainers(SelectSeq(Candidates, DoesNotRaise), upstream.platform_key)

\* the second of three containers raises: the first and the third are listed
C24_Witness ==
    /\ Parsed200
    /\ upstream.page.containers = AroundRaising
    /\ Len(routine_result.listings) = 2
    /\ routine_result.listings[1].title = Len(AmulMilk.title.text)
    /\ routine_result.listings[2].title = Len(Galaxy.title.text)

(***************************************************************************)
(* The url of a listing.                                                   *)
(***************************************************************************)
\* an absolute URL: it begins with http:// or https://
IsAbsoluteHref(href) ==
    StartsWith(href, <<"h", "t", "t", "p", ":", "/", "/">>) \/ StartsWith(href, <<"h", "t", "t", "p", "s", ":", "/", "/">>)

\* the search-results url and the base_url of the table are absolute
IsAbsoluteUrl(url) == url.kind \in {"search_url", "base_url + href"} \/ IsAbsoluteHref(url.href)

\* the href the link selectors of the platform extract from a container,
\* <<>> when there is none
ExtractedHref(c) ==
    IF PLATFORM_CONFIGS[upstream.platform_key].link.kind # "none"
       /\ LinkOf(c).found /\ LinkOf(c).has_href
    THEN LinkOf(c).href
    ELSE <<>>

YieldsListing(c) == ParseContainers(<<c>>, upstream.platform_key) # <<>>

\* C25: the url of every listing of the HTML parse path is absolute: the
\* extracted href when the href is an absolute URL, the platform's base URL
\* followed by the href when the href begins with "/", and the
\* search-results URL in every other case.
C25_UrlIsAbsolute ==
    Parsed200 =>
        LET yielding == SelectSeq(Candidates, YieldsListing)
        IN  \A i \in 1..Len(routine_result.listings) :
                LET href == ExtractedHref(yielding[i])
                    url == routine_result.listings[i].url
                IN  /\ IsAbsoluteUrl(url)
                    /\ url = IF IsAbsoluteHref(href) THEN HrefUrl(href)
                             ELSE IF StartsWith(href, <<"/">>) THEN BaseUrlPlus(href)
                             ELSE SearchUrl

(***************************************************************************)
(* The list scrape_prices returns.                                         *)
(***************************************************************************)
PricesScraped == entry = "scrape_prices" /\ routine_result.called

\* the listings of the four sections, before duplicates are removed
Collected == collected_prices(routine_query, upstream)

PriceKey(listing) == <<listing.platform, listing.price>>

\* C26: the list scrape_prices returns has no two items with the same
\* (platform, price) pair, holds for each pair the first item collected with
\* it, holds every pair that was collected, and is in non-decreasing order
\* of price.
C26_UniqueFirstSorted ==
    PricesScraped =>
        LET result == routine_result.listings
        IN  /\ \A i, j \in 1..Len(result) : i # j => PriceKey(result[i]) # PriceKey(result[j])
            /\ \A i \in 1..Len(result) :
                  \E j \in 1..Len(Collected) :
                      /\ result[i] = Collected[j]
                      /\ \A k \in 1..(j - 1) : PriceKey(Collected[k]) # PriceKey(result[i])
            /\ \A j \in 1..Len(Collected) :
                  \E i \in 1..Len(result) : PriceKey(result[i]) = PriceKey(Collected[j])
            /\ NonDecreasing(result)

\* Amazon's listing is followed by two Croma titles at one price: three
\* listings are collected and two are returned, the first Croma title kept
C26_Witness ==
    /\ PricesScraped
    /\ Len(Collected) = 3
    /\ Collected[1].platform = "Amazon"
    /\ Collected[2].title = AmulMilk.title.text
    /\ Collected[3].title = AmulGold.title.text
    /\ Len(routine_result.listings) = 2
    /\ routine_result.listings[2].title = AmulMilk.title.text

(***************************************************************************)
(* The order of the listings and the order the platforms are processed in. *)
(***************************************************************************)
\* the per-platform results with the ones at i and i + 1 processed the other
\* way round
Exchanged(results, i) ==
    [k \in 1..Len(results) |->
        IF k = i THEN results[i + 1] ELSE IF k = i + 1 THEN results[i] ELSE results[k]]

\* the products of the response when the platforms' results arrive as given
AppOutput(results) == SortByPrice(Concat(results))

ScraperOutput(results) ==
    MarkCheapest(SortByPrice(SelectSeq(Concat(results), HasPositivePrice)))

PricesOf(products) == [i \in 1..Len(products) |-> products[i].price]

\* C27: with each platform's results fixed, the order of the listings in the
\* output is the same whichever order the platforms are processed in, also
\* when listings of different platforms have the same price.
C27_OrderIndependentOfProcessing ==
    /\ (entry = "app" /\ pc = "done" /\ response.status = 200) =>
          \A i \in 1..(Len(returned) - 1) :
              AppOutput(Exchanged(returned, i)) = response.products
    /\ (entry = "scraper" /\ s_pc = "done") =>
          \A i \in 1..(Len(task_results) - 1) :
              ScraperOutput(Exchanged(task_results, i)) = s_result.products

\* what does hold: the prices of the output, in order, and its listings as
\* a collection are the same whichever order the platforms are processed in
PricesIndependentOfProcessing ==
    /\ (entry = "app" /\ pc = "done" /\ response.status = 200) =>
          \A i \in 1..(Len(returned) - 1) :
              /\ PricesOf(AppOutput(Exchanged(returned, i))) = PricesOf(response.products)
              /\ IsPermutation(AppOutput(Exchanged(returned, i)), response.products)
    /\ (entry = "scraper" /\ s_pc = "done") =>
          \A i \in 1..(Len(task_results) - 1) :
              PricesOf(ScraperOutput(Exchanged(task_results, i))) = PricesOf(s_result.products)

(***************************************************************************)
(* The limit on the platforms of one request.                              *)
(***************************************************************************)
\* the classifier's platforms, or the caller's when the request names some
ResolvedPlatforms ==
    IF custom_platforms # <<>> THEN custom_platforms ELSE get_relevant_platforms(product_name)

\* C28: a /scrape/prices request searches at most 3 platforms: of a resolved
\* list of more than 3 entries exactly the first 3, in order, are handed to
\* scrape_platform and reported in platforms_searched, and no entry after
\* them is rate-limited or fetched.
C28_AtMostThreePlatforms ==
    Resolved =>
        /\ Len(platforms) <= MAX_PLATFORMS
        /\ platforms = Prefix(ResolvedPlatforms, MAX_PLATFORMS)
        /\ Len(calls) = idx - 1
        /\ idx <= Len(platforms) + 1
        /\ rate_limited <= Len(platforms)
        /\ fetches <= Len(platforms)
        /\ AppDone => Len(calls) = Len(platforms)
        /\ Answered200 => response.platforms_searched = Prefix(ResolvedPlatforms, MAX_PLATFORMS)

\* the request names four platforms: the first three were handed to
\* scrape_platform, the two configured ones rate-limited and fetched once
C28_Witness ==
    /\ Answered200
    /\ custom_platforms = <<"croma", "bogus", "flipkart", "myntra">>
    /\ response.platforms_searched = <<"croma", "bogus", "flipkart">>
    /\ Len(calls) = 3
    /\ rate_limited = 2
    /\ fetches = 2

\* the same when the list is the classifier's
ClassifierListLimited ==
    /\ Answered200
    /\ custom_platforms = <<>>
    /\ Len(ResolvedPlatforms) > MAX_PLATFORMS
    /\ Len(response.platforms_searched) = MAX_PLATFORMS
    /\ fetches = MAX_PLATFORMS

(***************************************************************************)
(* The platform table.                                                     *)
(***************************************************************************)
\* C29: no operation changes PLATFORM_CONFIGS: after any requests,
\* classifications, parameter constructions and platform scrapes, successful
\* or failing, every platform's URLs, selector lists and flags are the ones
\* of the startup table.
C29_PlatformConfigsUnchanged == PLATFORM_CONFIGS = STARTUP_CONFIGS

\* a request answered with a ScraperAPI key set: parameters were built for a
\* platform that requires JavaScript, one scrape parsed a page and one
\* failed
C29_Witness ==
    /\ AppDone
    /\ SCRAPER_API_KEY
    /\ category # ""
    /\ \E i \in 1..Len(calls) :
          /\ calls[i].params.render
          /\ calls[i].params.wait_for_selector =
                 STARTUP_CONFIGS[platforms[i]].container.selectors[1]
    /\ \E i \in 1..Len(outcomes) : outcomes[i] = "http_200" /\ returned[i] # <<>>
    /\ \E i \in 1..Len(outcomes) : outcomes[i] = "timeout"
    /\ PLATFORM_CONFIGS = STARTUP_CONFIGS

(***************************************************************************)
(* The scrapers of _async_scrape_all in time.                              *)
(***************************************************************************)
\* C30: the scrapers of the selected platforms run concurrently: while the
\* scrape of one platform is in progress, the scrape of each later platform
\* can begin.
C30_ScrapersRunConcurrently ==
    (entry = "scraper" /\ s_pc = "tasks" /\ running # 0) =>
        \A j \in (running + 1)..Len(Tasks) : ENABLED AwaitTask(j)

\* what does hold: a scrape begins when every earlier one has returned or
\* raised
OneScrapeAtATime ==
    (entry = "scraper" /\ running # 0) =>
        /\ running = s_idx
        /\ Len(task_results) = running - 1

====
